---- MODULE Spec2Model ----
(***************************************************************************)
(* Model of the Tanmatsu music player plugin: the streaming decode engine  *)
(* of src/src/audio.c (a decoder thread and the control thread that calls  *)
(* the audio_* API), and the volume handling of src/src/main.c and         *)
(* src/src/input_handler.c.                                                *)
(*                                                                         *)
(* Every access to a variable shared between the two threads is a step of  *)
(* its own, in program order; time is not modelled, so a delay is a place  *)
(* where the other thread may take any number of steps.                    *)
(***************************************************************************)
EXTENDS Integers, Sequences, FiniteSets, TLC

(* ------------------------------------------------------------------ *)
(* Program constants                                                   *)
(* ------------------------------------------------------------------ *)

READ_BUFFER_SIZE == 16384
SamplesPerFrame == 1152
DefaultRate == 44100
EofThreshold == 4
MaxVolume == 100
VolumeStep == 5
U8 == 256
\* playlist_prev_or_restart goes to the previous song within this many ms
RestartAfterMs == 10000
\* a uint32_t is modelled as two 16-bit limbs, <<high, low>>
Limb == 65536

(* ------------------------------------------------------------------ *)
(* Bounds of the model                                                 *)
(* ------------------------------------------------------------------ *)

\* bytes of one MP3 frame of the modelled files (all frames alike)
FrameBytes == 8
\* frames of the longest modelled file
MaxFrames == 2
\* bytes of one frame, and frames, of the file that is longer than the read buffer
BigFrameBytes == 5000
BigFrames == 5
\* songs of the longest playlist whose cursor is exercised
MaxSongs == 3

(* ------------------------------------------------------------------ *)
(* The files on the card.  A path is a number; the string of path p is  *)
(* the pair <<p, p>>, copied and read in two halves, so that a torn     *)
(* copy is a pair of two different halves.  Path 3 names no file.       *)
(* ------------------------------------------------------------------ *)

Paths == {1, 2, 3}
\* a file longer than the read buffer; only the specification of the ingest
\* buffer plays it
BigPath == 4
Existing == {1, 2, BigPath}
NoPath == <<0, 0>>
Str(p) == <<p, p>>
\* the playlist that playlist_init builds from the card, in its sorted order: file
\* 1, file 2, and an entry that is on the card no more when it comes to be opened
Card == <<1, 2, 3>>

\* file 1: a block of FrameBytes bytes that is no frame (a tag), MaxFrames frames
\*         and 3 trailing bytes; 48 kHz
\* file 2: one frame and the first 4 bytes of a frame that is cut off; 44.1 kHz
\* file 4: BigFrames frames of BigFrameBytes bytes and 3 trailing bytes; 44.1 kHz
FrameSize(p) == IF p = BigPath THEN BigFrameBytes ELSE FrameBytes
FileLen(p) ==
    IF p = 1 THEN (MaxFrames + 1) * FrameBytes + 3
    ELSE IF p = BigPath THEN BigFrames * BigFrameBytes + 3
    ELSE FrameBytes + 4
FileRate(p) == IF p = 1 THEN 48000 ELSE DefaultRate
\* whether a frame starts at offset off of file p
FrameAt(p, off) ==
    IF p = 1 THEN off >= FrameBytes /\ off + FrameBytes <= FileLen(p)
    ELSE IF p = BigPath THEN off % BigFrameBytes = 0 /\ off + BigFrameBytes <= FileLen(p)
    ELSE off = 0
\* the byte at offset i of file p: every byte of every file is told apart from
\* every other, so that a byte lost, repeated or out of place shows
FileByte(p, i) == <<p, i>>
\* the n bytes of file p from offset from on, as fread delivers them
FileSlice(p, from, n) == [i \in 1..n |-> FileByte(p, from + i - 1)]

Min(x, y) == IF x < y THEN x ELSE y

\* values that the plugin may find in its "volume" setting (an int32_t), and
\* arguments that audio_set_volume may be given (a uint8_t)
Settings == {-5, 40, 100, 105}
VolumeArgs == {0, 100, 101, 255}

VARIABLES
    audio,      \* the statics of audio.c
    sink,       \* the ASP audio output: rate, amplifier, volume, frames written
    wpc,        \* the decoder thread's position ("none": no thread)
    wl,         \* the decoder thread's locals
    cpc,        \* the control thread's position
    cstack,     \* the control thread's return addresses
    cl,         \* the control thread's locals and last return values
    plug,       \* g_state of main.c and the persisted settings
    gh          \* history variables the properties read; no action's guard reads them

vars == <<audio, sink, wpc, wl, cpc, cstack, cl, plug, gh>>

(* ------------------------------------------------------------------ *)
(* Initial state: the statics' initialisers (audio.c 38-69)            *)
(* ------------------------------------------------------------------ *)

AudioInit ==
    [ g_mp3_decoder       |-> "NULL",     \* "NULL", "fresh" (mp3dec_init), "used"
      dec_file            |-> 0,          \* the file whose frames *g_mp3_decoder has state of
      g_current_file      |-> 0,          \* 0: NULL, else the open file
      fpos                |-> 0,          \* read cursor of the open FILE
      g_playing           |-> FALSE,
      g_paused            |-> FALSE,
      g_song_finished     |-> FALSE,
      g_samples_written   |-> 0,
      g_sample_rate       |-> DefaultRate,
      g_audio_initialized |-> FALSE,
      read_buffer         |-> "NULL",     \* "NULL" or "alloc"
      buf                 |-> <<>>,       \* read_buffer[0 .. buffer_len)
      buffer_pos          |-> 0,
      buffer_len          |-> 0,
      g_thread_running    |-> FALSE,
      g_thread_should_stop|-> FALSE,
      g_thread_in_decode  |-> FALSE,
      g_pending_path      |-> NoPath,
      g_new_file_pending  |-> FALSE,
      g_format_logged     |-> FALSE ]

SinkInit == [ rate |-> DefaultRate, amp |-> FALSE, volume |-> 0 ]

\* timeout: the last asp_audio_write timed out (or failed), between the write and
\* the statement after it
WlInit == [ path1 |-> 0, samples |-> 0, hz |-> 0, timeout |-> FALSE ]

ClInit == [ path |-> 0, ret |-> 0, sw |-> 0, rt |-> 0, vol |-> 0 ]

\* g_state (volume, current_position_ms, state, playlist.count,
\* playlist.current_index, song_start_time), whether the plugin is loaded
\* (plugin_init returned 0, plugin_cleanup not yet called), the "volume" setting
\* of the plugin's persisted settings, and the host's clock: the tick counter
\* was boot when the model starts, now_ms milliseconds ago
PlugInit ==
    [ loaded |-> FALSE, volume |-> 0, position |-> 0, has_setting |-> FALSE, setting |-> 0,
      state |-> "STOPPED", count |-> 0, current_index |-> 0, song_start_time |-> <<0, 0>>,
      boot |-> <<0, 0>>, now_ms |-> 0,
      running |-> FALSE ]    \* plugin_service_run has entered its loop

GhInit ==
    [ lastReq   |-> 0,       \* path of the last audio_play_file that set the flag
      over      |-> FALSE,   \* that call set the flag while it was still set
      torn      |-> FALSE,   \* a copy into g_pending_path has begun since that call set the flag
      serving   |-> FALSE,   \* the worker took the flag of such a call, with no such copy,
                             \* and no copy has begun while it has been serving it
      lww       |-> "none",  \* what the last fopen was given if it came from such serving:
                             \* "exact" for the string of lastReq, else "other"
      saved     |-> -1,      \* the value plugin_cleanup last wrote to the setting, or -1
      joins     |-> 0,       \* pthread_join calls on the thread of the last audio_init
      quiet     |-> "no",    \* "called" / "returned": an audio_stop or audio_pause called
                             \* with the worker in decode_loop, no open or resume since
      rechecked |-> FALSE,   \* the worker began a loop-condition check since that call and
                             \* since the last audio_play_file began
      counted   |-> FALSE,   \* a frame has been counted since the last successful open
      posOK     |-> FALSE,   \* the position read in progress began within the session
      posPrev   |-> -1,      \* the previous position read within this session, or -1
      failed    |-> FALSE,   \* the last fopen of start_new_file failed and the function
                             \* has returned
      stages    |-> <<>>,    \* the stages the audio_cleanup in progress has done, in order
      eaten     |-> 0,       \* bytes the decoder has consumed since the last successful open
      writes    |-> 0,       \* sink writes begun since quiet was set and since the last
                             \* audio_play_file began (2: two or more)
      stopped   |-> "no",    \* "yes": an audio_stop has returned and no audio_play_file or
                             \* audio_cleanup has begun since; "late": and since then the
                             \* worker began a loop-condition check and found g_playing set
      adv       |-> "none",  \* "done": the service loop has auto-advanced and the worker
                             \* has neither cleared g_song_finished nor failed to open a
                             \* file since; "again": it auto-advanced once more in that time
      pw        |-> -1,      \* sink writes begun since the pause key set PLAYBACK_PAUSED
                             \* (2: two or more), -1 after any later resume, play, stop
                             \* or cleanup
      ended     |-> FALSE,   \* with PLAYBACK_PLAYING the worker has reached the end of the
                             \* file or failed to open it, no audio_play_file begun since
      started   |-> 0,       \* now_ms when song_start_time was last set
      op        |-> "none",  \* the last call on the playlist cursor: "next" or "prev"
      nopen     |-> 0,       \* FILE handles that fopen returned and fclose has not been
                             \* given (2: two or more; -1: an fclose without one)
      held      |-> <<>> ]   \* Session(audio) and g_new_file_pending as they were when the
                             \* worker left decode_loop on a pause, until a stop, a play, a
                             \* cleanup or the next fill_buffer; else <<>>

Init ==
    /\ audio = AudioInit
    /\ sink = SinkInit
    /\ wpc = "none"
    /\ wl = WlInit
    /\ cpc = "idle"
    /\ cstack = <<>>
    /\ cl = ClInit
    /\ plug = PlugInit
    /\ gh = GhInit

(* ------------------------------------------------------------------ *)
(* fill_buffer (audio.c 72-96): compact the unread bytes to offset 0,  *)
(* read as much of the file as fits.  FillBuffer(a) is the statics     *)
(* after the call, FillReturn(a) the value returned.                   *)
(* ------------------------------------------------------------------ *)

\* fill_buffer without its compaction
Compacted_none(a) == a

\* memmove(read_buffer, read_buffer + buffer_pos, buffer_len - buffer_pos); ...
Compacted(a) ==
    IF a.buffer_pos > 0 /\ a.buffer_len > a.buffer_pos
    THEN [a EXCEPT !.buf = SubSeq(a.buf, a.buffer_pos + 1, a.buffer_len),
                   !.buffer_len = a.buffer_len - a.buffer_pos, !.buffer_pos = 0]
    ELSE IF a.buffer_pos > 0
         THEN [a EXCEPT !.buf = <<>>, !.buffer_len = 0, !.buffer_pos = 0]
         ELSE a

\* fread(read_buffer + buffer_len, 1, space, g_current_file)
Fread(a, space) == Min(space, FileLen(a.g_current_file) - a.fpos)

\* fill_buffer with an fread that leaves the read cursor where it was
FillBuffer_rewind(a) ==
    IF a.g_current_file = 0 THEN a
    ELSE LET b == Compacted(a)
             space == READ_BUFFER_SIZE - b.buffer_len
         IN  IF space > 0
             THEN [b EXCEPT !.buf = @ \o FileSlice(b.g_current_file, b.fpos, Fread(b, space)),
                            !.buffer_len = b.buffer_len + Fread(b, space)]
             ELSE b

FillBuffer(a) ==
    IF a.g_current_file = 0 THEN a
    ELSE LET b == Compacted(a)
             space == READ_BUFFER_SIZE - b.buffer_len
         IN  IF space > 0
             THEN [b EXCEPT !.buf = @ \o FileSlice(b.g_current_file, b.fpos, Fread(b, space)),
                            !.buffer_len = b.buffer_len + Fread(b, space),
                            !.fpos = b.fpos + Fread(b, space)]
             ELSE b

FillReturn(a) ==
    IF a.g_current_file = 0 THEN 0
    ELSE FillBuffer(a).buffer_len - FillBuffer(a).buffer_pos

(* ------------------------------------------------------------------ *)
(* mp3dec_decode_frame (minimp3, called at audio.c 145-148) on the     *)
(* n >= 4 unread bytes at offset off of file p: a frame (samples > 0,  *)
(* its bytes consumed), bytes skipped that hold no frame (samples = 0, *)
(* frame_bytes > 0), or "insufficient data" (both 0) for a frame that  *)
(* is cut off.                                                         *)
(* ------------------------------------------------------------------ *)

mp3dec_decode_frame(p, off, n) ==
    IF n >= FrameSize(p) /\ FrameAt(p, off)
    THEN [samples |-> SamplesPerFrame, frame_bytes |-> FrameSize(p), hz |-> FileRate(p)]
    ELSE IF n >= FrameSize(p)
         THEN [samples |-> 0, frame_bytes |-> FrameSize(p), hz |-> 0]
         ELSE [samples |-> 0, frame_bytes |-> 0, hz |-> 0]

\* the offset in the open file of read_buffer[buffer_pos]
Unread(a) == a.buffer_len - a.buffer_pos
BufferOffset(a) == a.fpos - Unread(a)

\* what a session of decoding consists of: the open file and its read cursor, the
\* ingest buffer and its cursors, the decoder and the file its state comes from,
\* g_sample_rate and g_samples_written
Session(a) ==
    << a.g_current_file, a.fpos, a.buf, a.buffer_pos, a.buffer_len,
       a.g_mp3_decoder, a.dec_file, a.g_sample_rate, a.g_samples_written >>

\* fopen(path, "rb") succeeds on the string of an existing file
Openable(path) == path[1] = path[2] /\ path[1] \in Existing

(* ------------------------------------------------------------------ *)
(* The decoder thread                                                  *)
(* ------------------------------------------------------------------ *)

DecodeLoopPcs ==
    { "dl_enter", "dl_c1", "dl_c2", "dl_c3", "dl_fill", "dl_eof1", "dl_eof2",
      "dl_decode", "dl_fmt", "dl_reconf", "dl_rate", "dl_write", "dl_count",
      "dl_refill", "dl_nd1", "dl_nd2", "dl_leave" }

StartNewFilePcs ==
    { "snf_close", "snf_open1", "snf_open2", "snf_fail", "snf_reset", "snf_fin",
      "snf_unpause", "snf_play", "snf_sink", "snf_amp", "snf_vol" }

ControlUnchanged == UNCHANGED <<cpc, cstack, cl, plug>>

CleanupPcs ==
    { "cl_guard", "cl_nop", "cl_1", "cl_2", "cl_3", "cl_wait1", "cl_stop", "cl_chk",
      "cl_wait2", "cl_join", "cl_run0", "cl_close", "cl_amp", "cl_free", "cl_reset",
      "cl_uninit", "cl_ret" }

\* a file is being decoded: start_new_file has opened it and returned, and neither
\* the next start_new_file nor audio_cleanup has begun
InSession ==
    /\ audio.g_current_file # 0
    /\ wpc \notin StartNewFilePcs \cup {"none", "w_take", "w_exit", "w_done"}
    /\ cpc \notin CleanupPcs

\* the thread loop without its test of g_thread_should_stop
w_loop_deaf ==
    /\ wpc = "w_loop"
    /\ wpc' = "w_pend"
    /\ UNCHANGED <<audio, sink, wl, gh>> /\ ControlUnchanged

\* while (!g_thread_should_stop)
w_loop ==
    /\ wpc = "w_loop"
    /\ wpc' = IF audio.g_thread_should_stop THEN "w_exit" ELSE "w_pend"
    /\ UNCHANGED <<audio, sink, wl, gh>> /\ ControlUnchanged

\* if (g_new_file_pending)
w_pend ==
    /\ wpc = "w_pend"
    /\ wpc' = IF audio.g_new_file_pending THEN "w_take" ELSE "w_play1"
    /\ UNCHANGED <<audio, sink, wl, gh>> /\ ControlUnchanged

\* g_new_file_pending = false; start_new_file(g_pending_path) is entered
w_take ==
    /\ wpc = "w_take"
    /\ audio' = [audio EXCEPT !.g_new_file_pending = FALSE]
    /\ gh' = [gh EXCEPT !.serving = gh.over /\ ~gh.torn, !.lww = "none",
                        !.posOK = FALSE, !.posPrev = -1]
    /\ wpc' = "snf_close"
    /\ UNCHANGED <<sink, wl>> /\ ControlUnchanged

\* the history of an fclose(g_current_file) that is made if g_current_file is not NULL
Closed == IF audio.g_current_file # 0 THEN [gh EXCEPT !.nopen = @ - 1] ELSE gh

\* start_new_file without its fclose of the previous file
snf_close_keep ==
    /\ wpc = "snf_close"
    /\ wpc' = "snf_open1"
    /\ UNCHANGED <<audio, sink, wl, gh>> /\ ControlUnchanged

\* if (g_current_file) { fclose(g_current_file); g_current_file = NULL; }
snf_close ==
    /\ wpc = "snf_close"
    /\ audio' = [audio EXCEPT !.g_current_file = 0, !.fpos = 0]
    /\ gh' = Closed
    /\ wpc' = "snf_open1"
    /\ UNCHANGED <<sink, wl>> /\ ControlUnchanged

\* fopen reads the first half of the string path points to (g_pending_path itself)
snf_open1 ==
    /\ wpc = "snf_open1"
    /\ wl' = [wl EXCEPT !.path1 = audio.g_pending_path[1]]
    /\ wpc' = "snf_open2"
    /\ UNCHANGED <<audio, sink, gh>> /\ ControlUnchanged

\* fopen reads the second half and opens the file, or fails
snf_open2 ==
    /\ wpc = "snf_open2"
    /\ LET path == <<wl.path1, audio.g_pending_path[2]>>
       IN  /\ audio' = IF Openable(path)
                       THEN [audio EXCEPT !.g_current_file = path[1], !.fpos = 0]
                       ELSE audio
           /\ wpc' = IF Openable(path) THEN "snf_reset" ELSE "snf_fail"
           /\ gh' = [gh EXCEPT
                       !.lww = IF gh.serving
                               THEN (IF path = Str(gh.lastReq) THEN "exact" ELSE "other")
                               ELSE "none",
                       !.serving = FALSE,
                       !.failed = FALSE,
                       !.eaten = IF Openable(path) THEN 0 ELSE @,
                       !.quiet = IF Openable(path) THEN "no" ELSE @,
                       !.writes = IF Openable(path) THEN 0 ELSE @,
                       !.nopen = IF Openable(path) THEN Min(@ + 1, 2) ELSE @,
                       !.rechecked = IF Openable(path) THEN FALSE ELSE @]
    /\ wl' = [wl EXCEPT !.path1 = 0]
    /\ UNCHANGED sink /\ ControlUnchanged

\* a failure of fopen that ends the thread
snf_fail_halt ==
    /\ wpc = "snf_fail"
    /\ audio' = [audio EXCEPT !.g_playing = FALSE]
    /\ gh' = [gh EXCEPT !.failed = TRUE]
    /\ wpc' = "w_exit"
    /\ UNCHANGED <<sink, wl>> /\ ControlUnchanged

\* g_playing = false; return;
snf_fail ==
    /\ wpc = "snf_fail"
    /\ audio' = [audio EXCEPT !.g_playing = FALSE]
    /\ gh' = [gh EXCEPT !.failed = TRUE, !.adv = "none",
                        !.ended = (plug.state = "PLAYING") \/ @]
    /\ wpc' = "w_play1"
    /\ UNCHANGED <<sink, wl>> /\ ControlUnchanged

\* the reset of start_new_file without buffer_pos = 0; buffer_len = 0;
snf_reset_stale ==
    /\ wpc = "snf_reset"
    /\ audio' = [audio EXCEPT !.g_mp3_decoder = "fresh", !.dec_file = 0,
                              !.g_samples_written = 0]
    /\ gh' = [gh EXCEPT !.counted = FALSE]
    /\ wpc' = "snf_fin"
    /\ UNCHANGED <<sink, wl>> /\ ControlUnchanged

\* mp3dec_init; buffer_pos = 0; buffer_len = 0; g_samples_written = 0;
snf_reset ==
    /\ wpc = "snf_reset"
    /\ audio' = [audio EXCEPT !.g_mp3_decoder = "fresh", !.dec_file = 0, !.buf = <<>>,
                              !.buffer_pos = 0, !.buffer_len = 0, !.g_samples_written = 0]
    /\ gh' = [gh EXCEPT !.counted = FALSE]
    /\ wpc' = "snf_fin"
    /\ UNCHANGED <<sink, wl>> /\ ControlUnchanged

\* g_song_finished = false; g_format_logged = false;
snf_fin ==
    /\ wpc = "snf_fin"
    /\ audio' = [audio EXCEPT !.g_song_finished = FALSE, !.g_format_logged = FALSE]
    /\ wpc' = "snf_unpause"
    /\ gh' = [gh EXCEPT !.adv = "none"]
    /\ UNCHANGED <<sink, wl>> /\ ControlUnchanged

\* g_paused = false;
snf_unpause ==
    /\ wpc = "snf_unpause"
    /\ audio' = [audio EXCEPT !.g_paused = FALSE]
    /\ wpc' = "snf_play"
    /\ UNCHANGED <<sink, wl, gh>> /\ ControlUnchanged

\* g_playing = true;
snf_play ==
    /\ wpc = "snf_play"
    /\ audio' = [audio EXCEPT !.g_playing = TRUE]
    /\ wpc' = "snf_sink"
    /\ UNCHANGED <<sink, wl, gh>> /\ ControlUnchanged

\* asp_audio_stop(); asp_audio_set_rate(44100); asp_audio_start();
snf_sink ==
    /\ wpc = "snf_sink"
    /\ sink' = [sink EXCEPT !.rate = DefaultRate]
    /\ wpc' = "snf_amp"
    /\ UNCHANGED <<audio, wl, gh>> /\ ControlUnchanged

\* asp_audio_set_amplifier(true);
snf_amp ==
    /\ wpc = "snf_amp"
    /\ sink' = [sink EXCEPT !.amp = TRUE]
    /\ wpc' = "snf_vol"
    /\ UNCHANGED <<audio, wl, gh>> /\ ControlUnchanged

\* asp_audio_set_volume((float)state->volume); start_new_file returns
snf_vol ==
    /\ wpc = "snf_vol"
    /\ sink' = [sink EXCEPT !.volume = plug.volume]
    /\ wpc' = "w_play1"
    /\ UNCHANGED <<audio, wl, gh>> /\ ControlUnchanged

start_new_file ==
    \/ snf_close \/ snf_open1 \/ snf_open2 \/ snf_fail \/ snf_reset \/ snf_fin
    \/ snf_unpause \/ snf_play \/ snf_sink \/ snf_amp \/ snf_vol

\* if (g_playing && !g_paused): the two reads, then decode_loop() or the idle sleep
w_play1 ==
    /\ wpc = "w_play1"
    /\ wpc' = IF audio.g_playing THEN "w_play2" ELSE "w_sleep"
    /\ UNCHANGED <<audio, sink, wl, gh>> /\ ControlUnchanged

w_play2 ==
    /\ wpc = "w_play2"
    /\ wpc' = IF audio.g_paused THEN "w_sleep" ELSE "dl_enter"
    /\ UNCHANGED <<audio, sink, wl, gh>> /\ ControlUnchanged

\* asp_plugin_delay_ms(20);
w_sleep ==
    /\ wpc = "w_sleep"
    /\ wpc' = "w_loop"
    /\ UNCHANGED <<audio, sink, wl, gh>> /\ ControlUnchanged

\* g_thread_running = false; return NULL;
w_exit ==
    /\ wpc = "w_exit"
    /\ audio' = [audio EXCEPT !.g_thread_running = FALSE]
    /\ wpc' = "w_done"
    /\ UNCHANGED <<sink, wl, gh>> /\ ControlUnchanged

(* ------------------------------------------------------------------ *)
(* decode_loop (audio.c 108-224)                                       *)
(* ------------------------------------------------------------------ *)

\* g_thread_in_decode = true;
dl_enter ==
    /\ wpc = "dl_enter"
    /\ audio' = [audio EXCEPT !.g_thread_in_decode = TRUE]
    /\ wpc' = "dl_c1"
    /\ UNCHANGED <<sink, wl, gh>> /\ ControlUnchanged

\* the loop condition without its test of g_playing
dl_c1_deaf ==
    /\ wpc = "dl_c1"
    /\ wpc' = "dl_c2"
    /\ gh' = [gh EXCEPT !.rechecked = (gh.quiet # "no"),
                        !.stopped = IF @ = "no" THEN "no" ELSE "late"]
    /\ UNCHANGED <<audio, sink, wl>> /\ ControlUnchanged

\* while (g_playing && !g_paused && !g_thread_should_stop): three reads in order
dl_c1 ==
    /\ wpc = "dl_c1"
    /\ wpc' = IF audio.g_playing THEN "dl_c2" ELSE "dl_leave"
    /\ gh' = [gh EXCEPT !.rechecked = (gh.quiet # "no"),
                        !.stopped = IF @ # "no" /\ audio.g_playing THEN "late" ELSE @]
    /\ UNCHANGED <<audio, sink, wl>> /\ ControlUnchanged

\* the loop condition without its test of g_paused
dl_c2_deaf ==
    /\ wpc = "dl_c2"
    /\ wpc' = "dl_c3"
    /\ UNCHANGED <<audio, sink, wl, gh>> /\ ControlUnchanged

dl_c2 ==
    /\ wpc = "dl_c2"
    /\ wpc' = IF audio.g_paused THEN "dl_leave" ELSE "dl_c3"
    /\ UNCHANGED <<audio, sink, wl, gh>> /\ ControlUnchanged

dl_c3 ==
    /\ wpc = "dl_c3"
    /\ wpc' = IF audio.g_thread_should_stop THEN "dl_leave" ELSE "dl_fill"
    /\ UNCHANGED <<audio, sink, wl, gh>> /\ ControlUnchanged

\* the end-of-file test taken as available <= 4
dl_fill_le ==
    /\ wpc = "dl_fill"
    /\ audio' = FillBuffer(audio)
    /\ wpc' = IF FillReturn(audio) <= EofThreshold THEN "dl_eof1" ELSE "dl_decode"
    /\ gh' = [gh EXCEPT !.held = <<>>]
    /\ UNCHANGED <<sink, wl>> /\ ControlUnchanged

\* size_t available = fill_buffer(); if (available < 4) ... else decode
dl_fill ==
    /\ wpc = "dl_fill"
    /\ audio' = FillBuffer(audio)
    /\ wpc' = IF FillReturn(audio) < EofThreshold THEN "dl_eof1" ELSE "dl_decode"
    /\ gh' = [gh EXCEPT !.held = <<>>]
    /\ UNCHANGED <<sink, wl>> /\ ControlUnchanged

\* g_song_finished = true;
dl_eof1 ==
    /\ wpc = "dl_eof1"
    /\ audio' = [audio EXCEPT !.g_song_finished = TRUE]
    /\ wpc' = "dl_eof2"
    /\ gh' = [gh EXCEPT !.ended = (plug.state = "PLAYING") \/ @]
    /\ UNCHANGED <<sink, wl>> /\ ControlUnchanged

\* g_playing = false; break;
dl_eof2 ==
    /\ wpc = "dl_eof2"
    /\ audio' = [audio EXCEPT !.g_playing = FALSE]
    /\ wpc' = "dl_leave"
    /\ UNCHANGED <<sink, wl, gh>> /\ ControlUnchanged

\* samples = mp3dec_decode_frame(...); if (info.frame_bytes > 0) buffer_pos += info.frame_bytes;
\* then the branch on samples > 0, !g_format_logged and info.frame_bytes == 0
dl_decode ==
    /\ wpc = "dl_decode"
    /\ LET o == mp3dec_decode_frame(audio.g_current_file, BufferOffset(audio), Unread(audio))
       IN  /\ audio' = [audio EXCEPT !.buffer_pos = @ + o.frame_bytes,
                                     !.g_mp3_decoder = "used",
                                     !.dec_file = audio.g_current_file]
           /\ wl' = IF o.samples > 0
                    THEN [wl EXCEPT !.samples = o.samples, !.hz = o.hz]
                    ELSE wl
           /\ wpc' = IF o.samples > 0
                     THEN (IF audio.g_format_logged THEN "dl_write" ELSE "dl_fmt")
                     ELSE (IF o.frame_bytes = 0 THEN "dl_refill" ELSE "dl_c1")
           /\ gh' = [gh EXCEPT !.eaten = @ + o.frame_bytes]
    /\ UNCHANGED sink /\ ControlUnchanged

\* if (info.hz != g_sample_rate)
dl_fmt ==
    /\ wpc = "dl_fmt"
    /\ wpc' = IF wl.hz # audio.g_sample_rate THEN "dl_reconf" ELSE "dl_rate"
    /\ UNCHANGED <<audio, sink, wl, gh>> /\ ControlUnchanged

\* asp_audio_stop(); asp_audio_set_rate(info.hz); asp_audio_start();
dl_reconf ==
    /\ wpc = "dl_reconf"
    /\ sink' = [sink EXCEPT !.rate = wl.hz]
    /\ wpc' = "dl_rate"
    /\ UNCHANGED <<audio, wl, gh>> /\ ControlUnchanged

\* g_sample_rate = info.hz; g_format_logged = true;
dl_rate ==
    /\ wpc = "dl_rate"
    /\ audio' = [audio EXCEPT !.g_sample_rate = wl.hz, !.g_format_logged = TRUE]
    /\ wpc' = "dl_write"
    /\ UNCHANGED <<sink, wl, gh>> /\ ControlUnchanged

\* asp_audio_write(pcm_buffer, bytes, 500): returns, the frame written or the call
\* timed out; the value it returns is not looked at
dl_write ==
    /\ wpc = "dl_write"
    /\ \E t \in BOOLEAN : wl' = [wl EXCEPT !.timeout = t]
    /\ gh' = [gh EXCEPT !.writes = IF gh.quiet = "no" THEN 0 ELSE Min(@ + 1, 2),
                        !.pw = IF @ < 0 THEN @ ELSE Min(@ + 1, 2)]
    /\ wpc' = "dl_count"
    /\ UNCHANGED <<audio, sink>> /\ ControlUnchanged

\* g_samples_written += samples;
dl_count ==
    /\ wpc = "dl_count"
    /\ audio' = [audio EXCEPT !.g_samples_written = @ + wl.samples]
    /\ wl' = [wl EXCEPT !.samples = 0, !.hz = 0, !.timeout = FALSE]
    /\ gh' = [gh EXCEPT !.counted = TRUE]
    /\ wpc' = "dl_c1"
    /\ UNCHANGED sink /\ ControlUnchanged

\* else if (info.frame_bytes == 0) { if (fill_buffer() == 0) ...
dl_refill ==
    /\ wpc = "dl_refill"
    /\ audio' = FillBuffer(audio)
    /\ wpc' = IF FillReturn(audio) = 0 THEN "dl_nd1" ELSE "dl_c1"
    /\ UNCHANGED <<sink, wl, gh>> /\ ControlUnchanged

\* g_song_finished = true;
dl_nd1 ==
    /\ wpc = "dl_nd1"
    /\ audio' = [audio EXCEPT !.g_song_finished = TRUE]
    /\ wpc' = "dl_nd2"
    /\ UNCHANGED <<sink, wl, gh>> /\ ControlUnchanged

\* g_playing = false; break;
dl_nd2 ==
    /\ wpc = "dl_nd2"
    /\ audio' = [audio EXCEPT !.g_playing = FALSE]
    /\ wpc' = "dl_leave"
    /\ UNCHANGED <<sink, wl, gh>> /\ ControlUnchanged

\* g_thread_in_decode = false;
dl_leave ==
    /\ wpc = "dl_leave"
    /\ audio' = [audio EXCEPT !.g_thread_in_decode = FALSE]
    /\ gh' = [gh EXCEPT !.held = IF audio.g_paused /\ audio.g_playing
                                  THEN <<Session(audio), audio.g_new_file_pending>>
                                  ELSE <<>>]
    /\ wpc' = "w_loop"
    /\ UNCHANGED <<sink, wl>> /\ ControlUnchanged

decode_loop ==
    \/ dl_enter \/ dl_c1 \/ dl_c2 \/ dl_c3 \/ dl_fill \/ dl_eof1 \/ dl_eof2
    \/ dl_decode \/ dl_fmt \/ dl_reconf \/ dl_rate \/ dl_write \/ dl_count
    \/ dl_refill \/ dl_leave

\* fill_buffer() == 0 after a decode call that consumed nothing: in decode_loop the
\* buffer then holds at least 4 unread bytes, so these two steps are never reached
decode_loop_no_data == dl_nd1 \/ dl_nd2

decoder_thread_func == w_loop \/ w_pend \/ w_take \/ w_play1 \/ w_play2 \/ w_sleep

\* the steps of a decoder thread that is never asked to play, to its exit
decoder_thread_idle == w_loop \/ w_pend \/ w_play1 \/ w_sleep \/ w_exit

\* the decoder thread until audio_cleanup asks it to stop
WorkerRunning == decoder_thread_func \/ start_new_file \/ decode_loop

Worker == WorkerRunning \/ w_exit

(* ------------------------------------------------------------------ *)
(* The control thread: the audio_* API (audio.c 294-492).  A call      *)
(* pushes its return address; the last step of a function, its _ret    *)
(* step, pops it.                                                      *)
(* ------------------------------------------------------------------ *)

WorkerUnchanged == UNCHANGED <<wpc, wl>>

Call(entry, back) == cpc' = entry /\ cstack' = <<back>> \o cstack

Return == cpc' = Head(cstack) /\ cstack' = Tail(cstack)

Goto(pc) == cpc' = pc /\ UNCHANGED cstack

\* g_playing = false;
pf_1 ==
    /\ cpc = "pf_1"
    /\ audio' = [audio EXCEPT !.g_playing = FALSE]
    /\ gh' = [gh EXCEPT !.rechecked = FALSE, !.writes = 0, !.held = <<>>,
                        !.stopped = "no", !.pw = -1, !.ended = FALSE]
    /\ Goto("pf_2")
    /\ UNCHANGED <<sink, cl, plug>> /\ WorkerUnchanged

\* g_paused = false; asp_plugin_delay_ms(30);
pf_2 ==
    /\ cpc = "pf_2"
    /\ audio' = [audio EXCEPT !.g_paused = FALSE]
    /\ Goto("pf_copy1")
    /\ UNCHANGED <<sink, cl, plug, gh>> /\ WorkerUnchanged

\* strncpy(g_pending_path, path, ...): the first half of the string
pf_copy1 ==
    /\ cpc = "pf_copy1"
    /\ audio' = [audio EXCEPT !.g_pending_path[1] = cl.path]
    /\ gh' = [gh EXCEPT !.torn = TRUE, !.serving = FALSE]
    /\ Goto("pf_copy2")
    /\ UNCHANGED <<sink, cl, plug>> /\ WorkerUnchanged

\* strncpy: the second half, and the terminating '\0'
pf_copy2 ==
    /\ cpc = "pf_copy2"
    /\ audio' = [audio EXCEPT !.g_pending_path[2] = cl.path]
    /\ gh' = [gh EXCEPT !.torn = TRUE, !.serving = FALSE]
    /\ Goto("pf_flag")
    /\ UNCHANGED <<sink, cl, plug>> /\ WorkerUnchanged

\* g_new_file_pending = true;
pf_flag ==
    /\ cpc = "pf_flag"
    /\ audio' = [audio EXCEPT !.g_new_file_pending = TRUE]
    /\ gh' = [gh EXCEPT !.lastReq = cl.path, !.over = audio.g_new_file_pending,
                        !.torn = FALSE]
    /\ Goto("pf_ret")
    /\ UNCHANGED <<sink, cl, plug>> /\ WorkerUnchanged

pf_ret ==
    /\ cpc = "pf_ret"
    /\ cl' = [cl EXCEPT !.path = 0]
    /\ Return
    /\ UNCHANGED <<audio, sink, plug, gh>> /\ WorkerUnchanged

audio_play_file == pf_1 \/ pf_2 \/ pf_copy1 \/ pf_copy2 \/ pf_flag \/ pf_ret

\* the history of a stop or pause request: it opens a window if the worker is in decode_loop
Quieted ==
    IF wpc \in DecodeLoopPcs
    THEN [gh EXCEPT !.quiet = "called", !.rechecked = FALSE, !.writes = 0]
    ELSE gh

QuietReturned == [gh EXCEPT !.quiet = IF @ = "no" THEN "no" ELSE "returned"]

\* g_playing = false;
st_1 ==
    /\ cpc = "st_1"
    /\ audio' = [audio EXCEPT !.g_playing = FALSE]
    /\ gh' = [Quieted EXCEPT !.held = <<>>, !.pw = -1]
    /\ Goto("st_2")
    /\ UNCHANGED <<sink, cl, plug>> /\ WorkerUnchanged

\* g_paused = false;
st_2 ==
    /\ cpc = "st_2"
    /\ audio' = [audio EXCEPT !.g_paused = FALSE]
    /\ Goto("st_3")
    /\ UNCHANGED <<sink, cl, plug, gh>> /\ WorkerUnchanged

\* g_new_file_pending = false;
st_3 ==
    /\ cpc = "st_3"
    /\ audio' = [audio EXCEPT !.g_new_file_pending = FALSE]
    /\ Goto("st_4")
    /\ UNCHANGED <<sink, cl, plug, gh>> /\ WorkerUnchanged

\* asp_audio_set_amplifier(false);
st_4 ==
    /\ cpc = "st_4"
    /\ sink' = [sink EXCEPT !.amp = FALSE]
    /\ Goto("st_ret")
    /\ UNCHANGED <<audio, cl, plug, gh>> /\ WorkerUnchanged

st_ret ==
    /\ cpc = "st_ret"
    /\ gh' = [QuietReturned EXCEPT !.stopped = "yes"]
    /\ Return
    /\ UNCHANGED <<audio, sink, cl, plug>> /\ WorkerUnchanged

audio_stop == st_1 \/ st_2 \/ st_3 \/ st_4 \/ st_ret

\* g_paused = true;
pa_1 ==
    /\ cpc = "pa_1"
    /\ audio' = [audio EXCEPT !.g_paused = TRUE]
    /\ gh' = Quieted
    /\ Goto("pa_2")
    /\ UNCHANGED <<sink, cl, plug>> /\ WorkerUnchanged

\* asp_audio_set_amplifier(false);
pa_2 ==
    /\ cpc = "pa_2"
    /\ sink' = [sink EXCEPT !.amp = FALSE]
    /\ Goto("pa_ret")
    /\ UNCHANGED <<audio, cl, plug, gh>> /\ WorkerUnchanged

pa_ret ==
    /\ cpc = "pa_ret"
    /\ gh' = QuietReturned
    /\ Return
    /\ UNCHANGED <<audio, sink, cl, plug>> /\ WorkerUnchanged

audio_pause == pa_1 \/ pa_2 \/ pa_ret

\* audio_resume without its test of g_playing
re_1_always ==
    /\ cpc = "re_1"
    /\ Goto("re_2")
    /\ UNCHANGED <<audio, sink, cl, plug, gh>> /\ WorkerUnchanged

\* if (g_playing)
re_1 ==
    /\ cpc = "re_1"
    /\ Goto(IF audio.g_playing THEN "re_2" ELSE "re_ret")
    /\ gh' = [gh EXCEPT !.pw = -1]
    /\ UNCHANGED <<audio, sink, cl, plug>> /\ WorkerUnchanged

\* g_paused = false;
re_2 ==
    /\ cpc = "re_2"
    /\ audio' = [audio EXCEPT !.g_paused = FALSE]
    /\ gh' = [gh EXCEPT !.quiet = "no", !.rechecked = FALSE, !.writes = 0]
    /\ Goto("re_3")
    /\ UNCHANGED <<sink, cl, plug>> /\ WorkerUnchanged

\* asp_audio_set_amplifier(true);
re_3 ==
    /\ cpc = "re_3"
    /\ sink' = [sink EXCEPT !.amp = TRUE]
    /\ Goto("re_ret")
    /\ UNCHANGED <<audio, cl, plug, gh>> /\ WorkerUnchanged

re_ret ==
    /\ cpc = "re_ret"
    /\ Return
    /\ UNCHANGED <<audio, sink, cl, plug, gh>> /\ WorkerUnchanged

audio_resume == re_1 \/ re_2 \/ re_3 \/ re_ret

\* audio_set_volume(uint8_t volume): if (volume > 100) volume = 100; asp_audio_set_volume
sv_1 ==
    /\ cpc = "sv_1"
    /\ sink' = [sink EXCEPT !.volume = IF cl.vol % U8 > MaxVolume THEN MaxVolume ELSE cl.vol % U8]
    /\ Goto("sv_ret")
    /\ UNCHANGED <<audio, cl, plug, gh>> /\ WorkerUnchanged

sv_ret ==
    /\ cpc = "sv_ret"
    /\ Return
    /\ UNCHANGED <<audio, sink, cl, plug, gh>> /\ WorkerUnchanged

audio_set_volume == sv_1 \/ sv_ret

\* bool audio_is_finished(void) { return g_song_finished; }
audio_is_finished == audio.g_song_finished

\* the value audio_get_position_ms computes from the two values it read
\* (uint64 product, cast to uint32: neither wraps below 2^32 ms, 49 days of audio,
\* which no file of the model comes near)
PositionMs(samples_written, sample_rate) ==
    IF sample_rate = 0 THEN 0
    ELSE (samples_written * 1000) \div sample_rate

\* if (g_sample_rate == 0) return 0;  Then the operands of
\* (g_samples_written * 1000ULL) / g_sample_rate are read: two volatile reads that
\* the expression leaves unsequenced, so a build may make them in either order.
gp_1 ==
    /\ cpc = "gp_1"
    /\ cl' = [cl EXCEPT !.ret = 0]
    /\ gh' = [gh EXCEPT !.posOK = InSession]
    /\ \/ audio.g_sample_rate = 0 /\ Goto("gp_ret")
       \/ audio.g_sample_rate # 0 /\ \E pc \in {"gp_2", "gp_2r"} : Goto(pc)
    /\ UNCHANGED <<audio, sink, plug>> /\ WorkerUnchanged

\* the read of g_samples_written, made first
gp_2 ==
    /\ cpc = "gp_2"
    /\ cl' = [cl EXCEPT !.sw = audio.g_samples_written]
    /\ Goto("gp_3")
    /\ UNCHANGED <<audio, sink, plug, gh>> /\ WorkerUnchanged

\* then the read of g_sample_rate, the division and the cast
gp_3 ==
    /\ cpc = "gp_3"
    /\ cl' = [cl EXCEPT !.ret = PositionMs(cl.sw, audio.g_sample_rate), !.sw = 0]
    /\ gh' = [gh EXCEPT !.posPrev = IF gh.posOK THEN PositionMs(cl.sw, audio.g_sample_rate)
                                    ELSE @]
    /\ Goto("gp_ret")
    /\ UNCHANGED <<audio, sink, plug>> /\ WorkerUnchanged

\* the read of g_sample_rate, made first
gp_2r ==
    /\ cpc = "gp_2r"
    /\ cl' = [cl EXCEPT !.rt = audio.g_sample_rate]
    /\ Goto("gp_3r")
    /\ UNCHANGED <<audio, sink, plug, gh>> /\ WorkerUnchanged

\* then the read of g_samples_written, the division and the cast
gp_3r ==
    /\ cpc = "gp_3r"
    /\ cl' = [cl EXCEPT !.ret = PositionMs(audio.g_samples_written, cl.rt), !.rt = 0]
    /\ gh' = [gh EXCEPT !.posPrev = IF gh.posOK THEN PositionMs(audio.g_samples_written, cl.rt)
                                    ELSE @]
    /\ Goto("gp_ret")
    /\ UNCHANGED <<audio, sink, plug>> /\ WorkerUnchanged

gp_ret ==
    /\ cpc = "gp_ret"
    /\ Return
    /\ UNCHANGED <<audio, sink, cl, plug, gh>> /\ WorkerUnchanged

audio_get_position_ms == gp_1 \/ gp_2 \/ gp_3 \/ gp_2r \/ gp_3r \/ gp_ret

(* ------------------------------------------------------------------ *)
(* audio_cleanup (audio.c 354-439)                                     *)
(* ------------------------------------------------------------------ *)

\* if (!g_audio_initialized) return;
cl_guard ==
    /\ cpc = "cl_guard"
    /\ gh' = [gh EXCEPT !.stages = <<>>]
    /\ Goto(IF audio.g_audio_initialized THEN "cl_1" ELSE "cl_nop")
    /\ UNCHANGED <<audio, sink, cl, plug>> /\ WorkerUnchanged

\* the early return of an engine that is not initialised
cl_nop ==
    /\ cpc = "cl_nop"
    /\ Return
    /\ UNCHANGED <<audio, sink, cl, plug, gh>> /\ WorkerUnchanged

\* g_playing = false;
cl_1 ==
    /\ cpc = "cl_1"
    /\ audio' = [audio EXCEPT !.g_playing = FALSE]
    /\ gh' = [gh EXCEPT !.posOK = FALSE, !.posPrev = -1, !.held = <<>>, !.stopped = "no",
                        !.pw = -1]
    /\ Goto("cl_2")
    /\ UNCHANGED <<sink, cl, plug>> /\ WorkerUnchanged

\* g_paused = false;
cl_2 ==
    /\ cpc = "cl_2"
    /\ audio' = [audio EXCEPT !.g_paused = FALSE]
    /\ Goto("cl_3")
    /\ UNCHANGED <<sink, cl, plug, gh>> /\ WorkerUnchanged

\* g_new_file_pending = false;
cl_3 ==
    /\ cpc = "cl_3"
    /\ audio' = [audio EXCEPT !.g_new_file_pending = FALSE]
    /\ gh' = [gh EXCEPT !.stages = Append(@, "intent")]
    /\ Goto("cl_wait1")
    /\ UNCHANGED <<sink, cl, plug>> /\ WorkerUnchanged

\* for (int i = 0; i < 30 && g_thread_in_decode; i++) asp_plugin_delay_ms(20);
\* The wait ends when a poll finds the flag clear or after its 30 polls; the worker
\* takes any number of steps during each delay, so without time the wait may end
\* in any state of the worker, and the state it ends in says which way it ended
\* (g_thread_in_decode still set: it expired, and only a warning is logged).
cl_wait1 ==
    /\ cpc = "cl_wait1"
    /\ gh' = [gh EXCEPT !.stages = Append(@, "wait1")]
    /\ Goto("cl_stop")
    /\ UNCHANGED <<audio, sink, cl, plug>> /\ WorkerUnchanged

\* g_thread_should_stop = true;
cl_stop ==
    /\ cpc = "cl_stop"
    /\ audio' = [audio EXCEPT !.g_thread_should_stop = TRUE]
    /\ gh' = [gh EXCEPT !.stages = Append(@, "stop")]
    /\ Goto("cl_chk")
    /\ UNCHANGED <<sink, cl, plug>> /\ WorkerUnchanged

\* audio_cleanup without its wait for the thread and its pthread_join
cl_chk_nojoin ==
    /\ cpc = "cl_chk"
    /\ Goto("cl_run0")
    /\ UNCHANGED <<audio, sink, cl, plug, gh>> /\ WorkerUnchanged

\* if (g_thread_running) { ... pthread_join ... }
cl_chk ==
    /\ cpc = "cl_chk"
    /\ Goto(IF audio.g_thread_running THEN "cl_wait2" ELSE "cl_run0")
    /\ UNCHANGED <<audio, sink, cl, plug, gh>> /\ WorkerUnchanged

\* for (int i = 0; i < 100 && g_thread_running; i++) asp_plugin_delay_ms(20);
\* (as the first wait: it ends with g_thread_running clear, or set when it expired)
cl_wait2 ==
    /\ cpc = "cl_wait2"
    /\ gh' = [gh EXCEPT !.stages = Append(@, "wait2")]
    /\ Goto("cl_join")
    /\ UNCHANGED <<audio, sink, cl, plug>> /\ WorkerUnchanged

\* a pthread_join that returns at once, the thread still running
cl_join_nowait ==
    /\ cpc = "cl_join"
    /\ gh' = [gh EXCEPT !.joins = @ + 1, !.stages = Append(@, "join")]
    /\ Goto("cl_run0")
    /\ UNCHANGED <<audio, sink, cl, plug>> /\ WorkerUnchanged

\* pthread_join(decoder_thread, NULL): returns once the thread has returned
cl_join ==
    /\ cpc = "cl_join"
    /\ wpc = "w_done"
    /\ wpc' = "none"
    /\ gh' = [gh EXCEPT !.joins = @ + 1, !.stages = Append(@, "join")]
    /\ Goto("cl_run0")
    /\ UNCHANGED <<audio, sink, wl, cl, plug>>

\* g_thread_running = false; asp_plugin_delay_ms(50);
cl_run0 ==
    /\ cpc = "cl_run0"
    /\ audio' = [audio EXCEPT !.g_thread_running = FALSE]
    /\ Goto("cl_close")
    /\ UNCHANGED <<sink, cl, plug, gh>> /\ WorkerUnchanged

\* if (g_current_file) { fclose(g_current_file); g_current_file = NULL; }
cl_close ==
    /\ cpc = "cl_close"
    /\ audio' = [audio EXCEPT !.g_current_file = 0, !.fpos = 0]
    /\ gh' = Closed
    /\ Goto("cl_amp")
    /\ UNCHANGED <<sink, cl, plug>> /\ WorkerUnchanged

\* asp_audio_set_amplifier(false);
cl_amp ==
    /\ cpc = "cl_amp"
    /\ sink' = [sink EXCEPT !.amp = FALSE]
    /\ gh' = [gh EXCEPT !.stages = Append(@, "mute")]
    /\ Goto("cl_free")
    /\ UNCHANGED <<audio, cl, plug>> /\ WorkerUnchanged

\* free(read_buffer); read_buffer = NULL; free(g_mp3_decoder); g_mp3_decoder = NULL;
cl_free ==
    /\ cpc = "cl_free"
    /\ audio' = [audio EXCEPT !.read_buffer = "NULL", !.g_mp3_decoder = "NULL",
                              !.dec_file = 0]
    /\ gh' = [gh EXCEPT !.stages = Append(@, "free")]
    /\ Goto("cl_reset")
    /\ UNCHANGED <<sink, cl, plug>> /\ WorkerUnchanged

\* the reset of audio_cleanup without g_samples_written = 0 and g_sample_rate = 44100
cl_reset_partial ==
    /\ cpc = "cl_reset"
    /\ audio' = [audio EXCEPT !.g_playing = FALSE, !.g_paused = FALSE,
                              !.g_song_finished = FALSE, !.g_format_logged = FALSE,
                              !.g_thread_in_decode = FALSE, !.buf = <<>>, !.buffer_pos = 0,
                              !.buffer_len = 0, !.g_new_file_pending = FALSE,
                              !.g_thread_should_stop = FALSE, !.g_pending_path = NoPath]
    /\ Goto("cl_uninit")
    /\ UNCHANGED <<sink, cl, plug, gh>> /\ WorkerUnchanged

\* "Reset all state for clean plugin reload" (audio.c 417-435)
cl_reset ==
    /\ cpc = "cl_reset"
    /\ audio' = [audio EXCEPT !.g_playing = FALSE, !.g_paused = FALSE,
                              !.g_song_finished = FALSE, !.g_samples_written = 0,
                              !.g_sample_rate = DefaultRate, !.g_format_logged = FALSE,
                              !.g_thread_in_decode = FALSE, !.buf = <<>>, !.buffer_pos = 0,
                              !.buffer_len = 0, !.g_new_file_pending = FALSE,
                              !.g_thread_should_stop = FALSE, !.g_pending_path = NoPath]
    /\ Goto("cl_uninit")
    /\ UNCHANGED <<sink, cl, plug, gh>> /\ WorkerUnchanged

\* g_audio_initialized = false;
cl_uninit ==
    /\ cpc = "cl_uninit"
    /\ audio' = [audio EXCEPT !.g_audio_initialized = FALSE]
    /\ Goto("cl_ret")
    /\ UNCHANGED <<sink, cl, plug, gh>> /\ WorkerUnchanged

cl_ret ==
    /\ cpc = "cl_ret"
    /\ gh' = [gh EXCEPT !.stages = <<>>]
    /\ Return
    /\ UNCHANGED <<audio, sink, cl, plug>> /\ WorkerUnchanged

audio_cleanup ==
    \/ cl_guard \/ cl_nop \/ cl_1 \/ cl_2 \/ cl_3 \/ cl_wait1 \/ cl_stop \/ cl_chk
    \/ cl_wait2 \/ cl_join \/ cl_run0 \/ cl_close \/ cl_amp \/ cl_free \/ cl_reset
    \/ cl_uninit \/ cl_ret

(* ------------------------------------------------------------------ *)
(* audio_init (audio.c 294-352)                                        *)
(* ------------------------------------------------------------------ *)

\* if (g_audio_initialized) audio_cleanup();
ai_guard ==
    /\ cpc = "ai_guard"
    /\ IF audio.g_audio_initialized THEN Call("cl_guard", "ai_alloc1") ELSE Goto("ai_alloc1")
    /\ UNCHANGED <<audio, sink, cl, plug, gh>> /\ WorkerUnchanged

\* read_buffer = malloc(READ_BUFFER_SIZE); if (!read_buffer) return -1;
ai_alloc1 ==
    /\ cpc = "ai_alloc1"
    /\ \E ok \in BOOLEAN :
         IF ok
         THEN /\ audio' = [audio EXCEPT !.read_buffer = "alloc"]
              /\ Goto("ai_alloc2") /\ UNCHANGED cl
         ELSE /\ cl' = [cl EXCEPT !.ret = -1]
              /\ Goto("ai_ret") /\ UNCHANGED audio
    /\ UNCHANGED <<sink, plug, gh>> /\ WorkerUnchanged

\* the decoder allocation with a failure path that returns without free(read_buffer)
ai_alloc2_leak ==
    /\ cpc = "ai_alloc2"
    /\ \E ok \in BOOLEAN :
         IF ok
         THEN /\ audio' = [audio EXCEPT !.g_mp3_decoder = "fresh"]
              /\ Goto("ai_flags") /\ UNCHANGED cl
         ELSE /\ cl' = [cl EXCEPT !.ret = -1]
              /\ Goto("ai_ret") /\ UNCHANGED audio
    /\ UNCHANGED <<sink, plug, gh>> /\ WorkerUnchanged

\* g_mp3_decoder = malloc(sizeof(mp3dec_t)); on failure free(read_buffer),
\* read_buffer = NULL, return -1; else mp3dec_init(g_mp3_decoder)
ai_alloc2 ==
    /\ cpc = "ai_alloc2"
    /\ \E ok \in BOOLEAN :
         IF ok
         THEN /\ audio' = [audio EXCEPT !.g_mp3_decoder = "fresh"]
              /\ Goto("ai_flags") /\ UNCHANGED cl
         ELSE /\ audio' = [audio EXCEPT !.read_buffer = "NULL"]
              /\ cl' = [cl EXCEPT !.ret = -1]
              /\ Goto("ai_ret")
    /\ UNCHANGED <<sink, plug, gh>> /\ WorkerUnchanged

\* g_thread_should_stop = false; g_thread_in_decode = false;
ai_flags ==
    /\ cpc = "ai_flags"
    /\ audio' = [audio EXCEPT !.g_thread_should_stop = FALSE, !.g_thread_in_decode = FALSE]
    /\ Goto("ai_create")
    /\ UNCHANGED <<sink, cl, plug, gh>> /\ WorkerUnchanged

\* pthread_create(&decoder_thread, &attr, decoder_thread_func, NULL); on failure
\* free both buffers, set both to NULL, return -1
ai_create ==
    /\ cpc = "ai_create"
    /\ \E ok \in BOOLEAN :
         IF ok
         THEN /\ wpc' = "w_loop" /\ wl' = WlInit
              /\ gh' = [gh EXCEPT !.joins = 0]
              /\ Goto("ai_run") /\ UNCHANGED <<audio, cl>>
         ELSE /\ audio' = [audio EXCEPT !.read_buffer = "NULL", !.g_mp3_decoder = "NULL",
                                        !.dec_file = 0]
              /\ cl' = [cl EXCEPT !.ret = -1]
              /\ Goto("ai_ret") /\ UNCHANGED <<wpc, wl, gh>>
    /\ UNCHANGED <<sink, plug>>

\* g_thread_running = true;
ai_run ==
    /\ cpc = "ai_run"
    /\ audio' = [audio EXCEPT !.g_thread_running = TRUE]
    /\ Goto("ai_initd")
    /\ UNCHANGED <<sink, cl, plug, gh>> /\ WorkerUnchanged

\* g_audio_initialized = true; return 0;
ai_initd ==
    /\ cpc = "ai_initd"
    /\ audio' = [audio EXCEPT !.g_audio_initialized = TRUE]
    /\ cl' = [cl EXCEPT !.ret = 0]
    /\ Goto("ai_ret")
    /\ UNCHANGED <<sink, plug, gh>> /\ WorkerUnchanged

ai_ret ==
    /\ cpc = "ai_ret"
    /\ Return
    /\ UNCHANGED <<audio, sink, cl, plug, gh>> /\ WorkerUnchanged

audio_init ==
    \/ ai_guard \/ ai_alloc1 \/ ai_alloc2 \/ ai_flags \/ ai_create \/ ai_run
    \/ ai_initd \/ ai_ret

(* ------------------------------------------------------------------ *)
(* The plugin: plugin_init and plugin_cleanup (main.c 43-115) and the  *)
(* volume keys of input_hook_callback (input_handler.c 146-168).       *)
(* playlist_init and input_handler_init succeed or fail as the host    *)
(* and the card decide; of their state the model keeps the playlist's  *)
(* count and cursor.                                                   *)
(* ------------------------------------------------------------------ *)

\* g_state.state = PLAYBACK_STOPPED; g_state.volume = 100; ... current_position_ms = 0;
pi_1 ==
    /\ cpc = "pi_1"
    /\ plug' = [plug EXCEPT !.state = "STOPPED", !.volume = MaxVolume,
                            !.song_start_time = <<0, 0>>, !.position = 0]
    /\ Goto("pi_load")
    /\ UNCHANGED <<audio, sink, cl, gh>> /\ WorkerUnchanged

\* if (asp_plugin_settings_get_int(ctx, "volume", &saved_volume))
\*     if (saved_volume >= 0 && saved_volume <= 100) g_state.volume = (uint8_t)saved_volume;
pi_load ==
    /\ cpc = "pi_load"
    /\ plug' = IF plug.has_setting /\ plug.setting >= 0 /\ plug.setting <= MaxVolume
               THEN [plug EXCEPT !.volume = plug.setting % U8]
               ELSE plug
    /\ Goto("pi_playlist")
    /\ UNCHANGED <<audio, sink, cl, gh>> /\ WorkerUnchanged

\* playlist_cleanup(): count = 0; current_index = 0;
playlist_cleanup(g) == [g EXCEPT !.count = 0, !.current_index = 0]

\* playlist_get_current_path(): NULL (0) when the playlist is empty
playlist_get_current_path(g) == IF g.count = 0 THEN 0 ELSE Card[g.current_index + 1]

\* if (playlist_init() != 0) return -1;  playlist_init finds the songs of the card,
\* or none (no card, no directory, no MP3 file), and starts the cursor at 0
pi_playlist ==
    /\ cpc = "pi_playlist"
    /\ \E ok \in BOOLEAN :
         IF ok THEN /\ Goto("pi_audio") /\ UNCHANGED cl
                    /\ plug' = [plug EXCEPT !.count = Len(Card), !.current_index = 0]
         ELSE /\ Goto("pi_ret") /\ cl' = [cl EXCEPT !.ret = -1]
              /\ plug' = playlist_cleanup(plug)
    /\ UNCHANGED <<audio, sink, gh>> /\ WorkerUnchanged

\* audio_init()
pi_audio ==
    /\ cpc = "pi_audio"
    /\ Call("ai_guard", "pi_chk")
    /\ UNCHANGED <<audio, sink, cl, plug, gh>> /\ WorkerUnchanged

\* if (audio_init() != 0) { playlist_cleanup(); return -1; }  audio_set_volume(g_state.volume);
pi_chk ==
    /\ cpc = "pi_chk"
    /\ IF cl.ret # 0
       THEN /\ Goto("pi_ret") /\ cl' = [cl EXCEPT !.ret = -1]
            /\ plug' = playlist_cleanup(plug)
       ELSE /\ Call("sv_1", "pi_hook") /\ cl' = [cl EXCEPT !.vol = plug.volume]
            /\ UNCHANGED plug
    /\ UNCHANGED <<audio, sink, gh>> /\ WorkerUnchanged

\* if (input_handler_init() != 0) { audio_cleanup(); playlist_cleanup(); return -1; }
\* widget_init(); return 0;
pi_hook ==
    /\ cpc = "pi_hook"
    /\ \E ok \in BOOLEAN :
         IF ok
         THEN /\ Goto("pi_ret")
              /\ cl' = [cl EXCEPT !.ret = 0, !.vol = 0]
              /\ plug' = [plug EXCEPT !.loaded = TRUE]
         ELSE /\ Call("cl_guard", "pi_ret")
              /\ cl' = [cl EXCEPT !.ret = -1, !.vol = 0]
              /\ plug' = playlist_cleanup(plug)
    /\ UNCHANGED <<audio, sink, gh>> /\ WorkerUnchanged

pi_ret ==
    /\ cpc = "pi_ret"
    /\ Return
    /\ UNCHANGED <<audio, sink, cl, plug, gh>> /\ WorkerUnchanged

plugin_init == pi_1 \/ pi_load \/ pi_playlist \/ pi_audio \/ pi_chk \/ pi_hook \/ pi_ret

\* asp_plugin_settings_set_int(ctx, "volume", g_state.volume);
pc_save ==
    /\ cpc = "pc_save"
    /\ plug' = [plug EXCEPT !.has_setting = TRUE, !.setting = plug.volume]
    /\ gh' = [gh EXCEPT !.saved = plug.volume]
    /\ Goto("pc_stop")
    /\ UNCHANGED <<audio, sink, cl>> /\ WorkerUnchanged

\* audio_stop(); g_state.state = PLAYBACK_STOPPED;
pc_stop ==
    /\ cpc = "pc_stop"
    /\ Call("st_1", "pc_audio")
    /\ UNCHANGED <<audio, sink, cl, plug, gh>> /\ WorkerUnchanged

\* widget_cleanup(); input_handler_cleanup(); audio_cleanup();
pc_audio ==
    /\ cpc = "pc_audio"
    /\ plug' = [plug EXCEPT !.loaded = FALSE, !.running = FALSE, !.state = "STOPPED"]
    /\ Call("cl_guard", "pc_ret")
    /\ UNCHANGED <<audio, sink, cl, gh>> /\ WorkerUnchanged

\* playlist_cleanup(); g_ctx = NULL;
pc_ret ==
    /\ cpc = "pc_ret"
    /\ plug' = playlist_cleanup(plug)
    /\ Return
    /\ UNCHANGED <<audio, sink, cl, gh>> /\ WorkerUnchanged

plugin_cleanup == pc_save \/ pc_stop \/ pc_audio \/ pc_ret

\* NAV_KEY_VOLUME_UP without a limit: state->volume += 5 whatever it was
key_volume_up_unbounded ==
    /\ cpc = "idle"
    /\ plug.loaded
    /\ plug' = [plug EXCEPT !.volume = (@ + VolumeStep) % U8]
    /\ cl' = [cl EXCEPT !.vol = (plug.volume + VolumeStep) % U8]
    /\ Call("sv_1", "key_ret")
    /\ UNCHANGED <<audio, sink, gh>> /\ WorkerUnchanged

\* NAV_KEY_VOLUME_UP: if (state->volume <= 95) state->volume += 5; else state->volume = 100;
\* audio_set_volume(state->volume);
key_volume_up ==
    /\ cpc = "idle"
    /\ plug.loaded
    /\ LET v == IF plug.volume <= MaxVolume - VolumeStep THEN plug.volume + VolumeStep
                ELSE MaxVolume
       IN  /\ plug' = [plug EXCEPT !.volume = v]
           /\ cl' = [cl EXCEPT !.vol = v]
    /\ Call("sv_1", "key_ret")
    /\ UNCHANGED <<audio, sink, gh>> /\ WorkerUnchanged

\* NAV_KEY_VOLUME_DOWN: if (state->volume >= 5) state->volume -= 5; else state->volume = 0;
\* audio_set_volume(state->volume);
key_volume_down ==
    /\ cpc = "idle"
    /\ plug.loaded
    /\ LET v == IF plug.volume >= VolumeStep THEN plug.volume - VolumeStep ELSE 0
       IN  /\ plug' = [plug EXCEPT !.volume = v]
           /\ cl' = [cl EXCEPT !.vol = v]
    /\ Call("sv_1", "key_ret")
    /\ UNCHANGED <<audio, sink, gh>> /\ WorkerUnchanged

\* return false; (the event is not consumed)
key_ret ==
    /\ cpc = "key_ret"
    /\ cl' = [cl EXCEPT !.vol = 0]
    /\ Goto("idle")
    /\ UNCHANGED <<audio, sink, plug, gh>> /\ WorkerUnchanged

input_hook_callback == key_volume_up \/ key_volume_down \/ key_ret

(* ------------------------------------------------------------------ *)
(* The playlist cursor (playlist.c 83-108) and the host's tick counter, *)
(* a uint32_t of milliseconds that wraps.                              *)
(* ------------------------------------------------------------------ *)

\* the uint32_t of a number below 2^31
U32(n) == << (n \div Limb) % Limb, n % Limb >>

\* a + b and a - b in uint32_t arithmetic
Add32(a, b) ==
    LET lo == a[2] + b[2]
    IN  << (a[1] + b[1] + (lo \div Limb)) % Limb, lo % Limb >>

Sub32(a, b) ==
    LET lo == a[2] - b[2]
        borrow == IF lo < 0 THEN 1 ELSE 0
    IN  << (a[1] - b[1] - borrow + Limb) % Limb, (lo + Limb) % Limb >>

\* a < n for a number n below 2^16
Less32(a, n) == a[1] = 0 /\ a[2] < n

\* asp_plugin_get_tick_ms()
asp_plugin_get_tick_ms(g) == Add32(g.boot, U32(g.now_ms))

\* playlist_next without its wrap to 0
playlist_next_nowrap(g) ==
    IF g.count = 0 THEN g ELSE [g EXCEPT !.current_index = @ + 1]

\* if (count == 0) return; current_index++; if (current_index >= count) current_index = 0;
playlist_next(g) ==
    IF g.count = 0 THEN g
    ELSE [g EXCEPT !.current_index = IF @ + 1 >= g.count THEN 0 ELSE @ + 1]

\* if (count == 0) return; elapsed = now - song_start_time;
\* if (elapsed < 10000) { current_index--; if (current_index < 0) current_index = count - 1; }
playlist_prev_or_restart(g) ==
    IF g.count = 0 THEN g
    ELSE IF Less32(Sub32(asp_plugin_get_tick_ms(g), g.song_start_time), RestartAfterMs)
         THEN [g EXCEPT !.current_index = IF @ - 1 < 0 THEN g.count - 1 ELSE @ - 1]
         ELSE g

\* state->song_start_time = asp_plugin_get_tick_ms();
SongStarted(g) == [g EXCEPT !.song_start_time = asp_plugin_get_tick_ms(g)]

\* the times, in ms after the start of the model, that the host's clock is read at
Times == {0, 1, RestartAfterMs - 1, RestartAfterMs, 2 * RestartAfterMs}

\* the values of the tick counter at the start: 0, and 5536 ms before it wraps
BootTicks == { <<0, 0>>, <<Limb - 1, 60000>> }

\* time passes
host_clock ==
    /\ cpc = "idle"
    /\ \E t \in Times : t > plug.now_ms /\ plug' = [plug EXCEPT !.now_ms = t]
    /\ UNCHANGED <<audio, sink, cl, cstack, cpc, gh>> /\ WorkerUnchanged

call_playlist_next ==
    /\ cpc = "idle"
    /\ plug' = playlist_next(plug)
    /\ gh' = [gh EXCEPT !.op = "next"]
    /\ UNCHANGED <<audio, sink, cl, cstack, cpc>> /\ WorkerUnchanged

call_playlist_prev_or_restart ==
    /\ cpc = "idle"
    /\ plug' = playlist_prev_or_restart(plug)
    /\ gh' = [gh EXCEPT !.op = "prev"]
    /\ UNCHANGED <<audio, sink, cl, cstack, cpc>> /\ WorkerUnchanged

\* a song is started: the callers of the two functions set song_start_time
call_song_started ==
    /\ cpc = "idle"
    /\ plug' = SongStarted(plug)
    /\ gh' = [gh EXCEPT !.started = plug.now_ms, !.op = "none"]
    /\ UNCHANGED <<audio, sink, cl, cstack, cpc>> /\ WorkerUnchanged

(* ------------------------------------------------------------------ *)
(* plugin_service_run (main.c 117-163) and the transport keys of       *)
(* input_hook_callback (input_handler.c 82-144).  The callback is      *)
(* taken between two passes of the service loop, never within one.     *)
(* ------------------------------------------------------------------ *)

\* if (g_state.playlist.count > 0) { path = playlist_get_current_path();
\*     if (path) { audio_play_file(path); ...
sr_start ==
    /\ cpc = "idle"
    /\ plug.loaded /\ ~plug.running
    /\ plug' = [plug EXCEPT !.running = TRUE]
    /\ IF plug.count > 0 /\ playlist_get_current_path(plug) # 0
       THEN /\ cl' = [cl EXCEPT !.path = playlist_get_current_path(plug)]
            /\ Call("pf_1", "sr_started")
       ELSE /\ Goto("idle") /\ UNCHANGED cl
    /\ UNCHANGED <<audio, sink, gh>> /\ WorkerUnchanged

\* g_state.state = PLAYBACK_PLAYING; g_state.song_start_time = asp_plugin_get_tick_ms();
sr_started ==
    /\ cpc = "sr_started"
    /\ plug' = [SongStarted(plug) EXCEPT !.state = "PLAYING"]
    /\ gh' = [gh EXCEPT !.started = plug.now_ms]
    /\ Goto("idle")
    /\ UNCHANGED <<audio, sink, cl>> /\ WorkerUnchanged

\* while (!asp_plugin_should_stop(ctx)) { if (g_state.state == PLAYBACK_PLAYING) {
\*     g_state.current_position_ms = audio_get_position_ms();
sr_pass ==
    /\ cpc = "idle"
    /\ plug.loaded /\ plug.running
    /\ IF plug.state = "PLAYING" THEN Call("gp_1", "sr_pos") ELSE Goto("sr_delay")
    /\ UNCHANGED <<audio, sink, cl, plug, gh>> /\ WorkerUnchanged

sr_pos ==
    /\ cpc = "sr_pos"
    /\ plug' = [plug EXCEPT !.position = cl.ret]
    /\ Goto("sr_proc1")
    /\ UNCHANGED <<audio, sink, cl, gh>> /\ WorkerUnchanged

\* if (!audio_process()): return g_playing && !g_song_finished; the read of g_playing
sr_proc1 ==
    /\ cpc = "sr_proc1"
    /\ Goto(IF audio.g_playing THEN "sr_proc2" ELSE "sr_fin")
    /\ UNCHANGED <<audio, sink, cl, plug, gh>> /\ WorkerUnchanged

\* the read of g_song_finished, made when g_playing was read as true
sr_proc2 ==
    /\ cpc = "sr_proc2"
    /\ Goto(IF ~audio.g_song_finished THEN "sr_delay" ELSE "sr_fin")
    /\ UNCHANGED <<audio, sink, cl, plug, gh>> /\ WorkerUnchanged

\* if (audio_is_finished()) { playlist_next(); path = playlist_get_current_path();
\*     if (path) { audio_play_file(path); ...
sr_fin ==
    /\ cpc = "sr_fin"
    /\ IF audio_is_finished
       THEN /\ plug' = playlist_next(plug)
            /\ gh' = [gh EXCEPT !.adv = IF @ = "none" THEN "done" ELSE "again"]
            /\ IF playlist_get_current_path(playlist_next(plug)) # 0
               THEN /\ cl' = [cl EXCEPT !.path = playlist_get_current_path(playlist_next(plug))]
                    /\ Call("pf_1", "sr_adv")
               ELSE /\ Goto("sr_delay") /\ UNCHANGED cl
       ELSE /\ Goto("sr_delay") /\ UNCHANGED <<cl, plug, gh>>
    /\ UNCHANGED <<audio, sink>> /\ WorkerUnchanged

\* g_state.song_start_time = asp_plugin_get_tick_ms();
sr_adv ==
    /\ cpc = "sr_adv"
    /\ plug' = SongStarted(plug)
    /\ gh' = [gh EXCEPT !.started = plug.now_ms]
    /\ Goto("sr_delay")
    /\ UNCHANGED <<audio, sink, cl>> /\ WorkerUnchanged

\* asp_plugin_delay_ms(10) when playing, else asp_plugin_delay_ms(50)
sr_delay ==
    /\ cpc = "sr_delay"
    /\ Goto("idle")
    /\ UNCHANGED <<audio, sink, cl, plug, gh>> /\ WorkerUnchanged

plugin_service_run ==
    sr_start \/ sr_started \/ sr_pass \/ sr_pos \/ sr_proc1 \/ sr_proc2 \/ sr_fin
    \/ sr_adv \/ sr_delay

\* SUPER+RIGHT: playlist_next(); path = playlist_get_current_path();
\* if (path) { audio_play_file(path); ...
key_next ==
    /\ cpc = "idle"
    /\ plug.loaded
    /\ plug' = playlist_next(plug)
    /\ IF playlist_get_current_path(playlist_next(plug)) # 0
       THEN /\ cl' = [cl EXCEPT !.path = playlist_get_current_path(playlist_next(plug))]
            /\ Call("pf_1", "key_started")
       ELSE /\ Goto("key_ret") /\ UNCHANGED cl
    /\ UNCHANGED <<audio, sink, gh>> /\ WorkerUnchanged

\* SUPER+LEFT: playlist_prev_or_restart(); path = playlist_get_current_path();
\* if (path) { audio_play_file(path); ...
key_prev ==
    /\ cpc = "idle"
    /\ plug.loaded
    /\ plug' = playlist_prev_or_restart(plug)
    /\ IF playlist_get_current_path(playlist_prev_or_restart(plug)) # 0
       THEN /\ cl' = [cl EXCEPT !.path = playlist_get_current_path(playlist_prev_or_restart(plug))]
            /\ Call("pf_1", "key_started")
       ELSE /\ Goto("key_ret") /\ UNCHANGED cl
    /\ UNCHANGED <<audio, sink, gh>> /\ WorkerUnchanged

\* state->song_start_time = asp_plugin_get_tick_ms(); state->state = PLAYBACK_PLAYING;
key_started ==
    /\ cpc = "key_started"
    /\ plug' = [SongStarted(plug) EXCEPT !.state = "PLAYING"]
    /\ gh' = [gh EXCEPT !.started = plug.now_ms]
    /\ Goto("key_ret")
    /\ UNCHANGED <<audio, sink, cl>> /\ WorkerUnchanged

\* SUPER+DOWN and SUPER+SELECT: if (state->state == PLAYBACK_PLAYING) { audio_pause(); ...
\* } else if (state->state == PLAYBACK_PAUSED) { audio_resume(); ...
key_pause ==
    /\ cpc = "idle"
    /\ plug.loaded
    /\ IF plug.state = "PLAYING" THEN Call("pa_1", "key_paused")
       ELSE IF plug.state = "PAUSED" THEN Call("re_1", "key_resumed")
       ELSE Goto("key_ret")
    /\ UNCHANGED <<audio, sink, cl, plug, gh>> /\ WorkerUnchanged

\* state->state = PLAYBACK_PAUSED;
key_paused ==
    /\ cpc = "key_paused"
    /\ plug' = [plug EXCEPT !.state = "PAUSED"]
    /\ gh' = [gh EXCEPT !.pw = 0]
    /\ Goto("key_ret")
    /\ UNCHANGED <<audio, sink, cl>> /\ WorkerUnchanged

\* state->state = PLAYBACK_PLAYING;
key_resumed ==
    /\ cpc = "key_resumed"
    /\ plug' = [plug EXCEPT !.state = "PLAYING"]
    /\ Goto("key_ret")
    /\ UNCHANGED <<audio, sink, cl, gh>> /\ WorkerUnchanged

(* ------------------------------------------------------------------ *)
(* A client of the engine: between calls the control thread may make   *)
(* any call of the API; the transport calls only on an engine that     *)
(* audio_init has started.                                             *)
(* ------------------------------------------------------------------ *)

ClientCall(entry) ==
    /\ cpc = "idle"
    /\ Call(entry, "idle")
    /\ UNCHANGED <<audio, sink, cl, plug, gh>> /\ WorkerUnchanged

call_init == ClientCall("ai_guard")

call_cleanup == ClientCall("cl_guard")

call_play ==
    /\ cpc = "idle"
    /\ audio.g_audio_initialized
    /\ \E p \in Paths : cl' = [cl EXCEPT !.path = p]
    /\ Call("pf_1", "idle")
    /\ UNCHANGED <<audio, sink, plug, gh>> /\ WorkerUnchanged

\* audio_play_file of the file that is longer than the read buffer
call_play_big ==
    /\ cpc = "idle"
    /\ audio.g_audio_initialized
    /\ cl' = [cl EXCEPT !.path = BigPath]
    /\ Call("pf_1", "idle")
    /\ UNCHANGED <<audio, sink, plug, gh>> /\ WorkerUnchanged

call_stop == audio.g_audio_initialized /\ ClientCall("st_1")

call_pause == audio.g_audio_initialized /\ ClientCall("pa_1")

call_resume == audio.g_audio_initialized /\ ClientCall("re_1")

call_position == audio.g_audio_initialized /\ ClientCall("gp_1")

\* audio_set_volume with any argument a uint8_t can hold
call_volume ==
    /\ cpc = "idle"
    /\ audio.g_audio_initialized
    /\ \E v \in VolumeArgs : cl' = [cl EXCEPT !.vol = v]
    /\ Call("sv_1", "key_ret")
    /\ UNCHANGED <<audio, sink, plug, gh>> /\ WorkerUnchanged

\* the host loads the plugin, and unloads it, loaded or not
call_plugin_init == ~plug.loaded /\ ClientCall("pi_1")

call_plugin_cleanup == ClientCall("pc_save")

\* audio_init on an engine that is not initialised
call_start == ~audio.g_audio_initialized /\ call_init

\* audio_play_file of file 1 or of the path that names no file
call_play_some ==
    /\ cpc = "idle"
    /\ audio.g_audio_initialized
    /\ \E p \in {1, 3} : cl' = [cl EXCEPT !.path = p]
    /\ Call("pf_1", "idle")
    /\ UNCHANGED <<audio, sink, plug, gh>> /\ WorkerUnchanged

\* audio_play_file of file 1, which has a block without a frame and plays to its end
call_play_one ==
    /\ cpc = "idle"
    /\ audio.g_audio_initialized
    /\ cl' = [cl EXCEPT !.path = 1]
    /\ Call("pf_1", "idle")
    /\ UNCHANGED <<audio, sink, plug, gh>> /\ WorkerUnchanged

(* ------------------------------------------------------------------ *)
(* Specifications.  Each lets the client make the calls its claims are *)
(* about, on the same engine.                                          *)
(* ------------------------------------------------------------------ *)

\* the transport: start the engine, then play / stop / pause / resume
NextPlay ==
    \/ call_start \/ call_play \/ call_stop \/ call_pause \/ call_resume
    \/ audio_init \/ audio_play_file \/ audio_stop \/ audio_pause \/ audio_resume
    \/ WorkerRunning

SpecPlay == Init /\ [][NextPlay]_vars

\* play requests only: start the engine, then audio_play_file again and again, with
\* a worker that keeps being scheduled and calls of audio_play_file that return
NextQueue ==
    \/ call_start \/ call_play
    \/ audio_init \/ audio_play_file
    \/ WorkerRunning

SpecQueue ==
    Init /\ [][NextQueue]_vars /\ WF_vars(WorkerRunning) /\ WF_vars(audio_play_file)

\* the volume: the host loads and unloads the plugin, over settings that hold any
\* of Settings or no "volume" at all, and the volume keys are pressed in between.
\* Nothing is played, so the worker only polls.
InitVol ==
    /\ audio = AudioInit
    /\ sink = SinkInit
    /\ wpc = "none"
    /\ wl = WlInit
    /\ cpc = "idle"
    /\ cstack = <<>>
    /\ cl = ClInit
    /\ \E has \in BOOLEAN : \E v \in Settings :
         plug = [PlugInit EXCEPT !.has_setting = has, !.setting = IF has THEN v ELSE 0]
    /\ gh = GhInit

NextVol ==
    \/ call_plugin_init \/ call_plugin_cleanup \/ call_volume
    \/ plugin_init \/ plugin_cleanup \/ input_hook_callback
    \/ audio_init \/ audio_cleanup \/ audio_stop \/ audio_set_volume
    \/ decoder_thread_idle

SpecVol == InitVol /\ [][NextVol]_vars

\* the lifecycle: audio_init and audio_cleanup in any order, around play requests
NextLife ==
    \/ call_init \/ call_cleanup \/ call_play
    \/ audio_init \/ audio_cleanup \/ audio_play_file
    \/ Worker

SpecLife == Init /\ [][NextLife]_vars

\* the lifecycle with a worker that is scheduled and a control thread that goes on
\* through audio_cleanup once it is in it (the client is free never to call again)
SpecLifeFair == SpecLife /\ WF_vars(Worker) /\ WF_vars(audio_cleanup)

\* the position: start the engine, then play requests and position reads
NextPos ==
    \/ call_start \/ call_play \/ call_position
    \/ audio_init \/ audio_play_file \/ audio_get_position_ms
    \/ WorkerRunning

SpecPos == Init /\ [][NextPos]_vars

\* the ingest buffer: start the engine, then play the file that is longer than
\* the read buffer, again and again; the worker's steps are those that such a
\* file takes it through
NextBuf ==
    \/ call_start \/ call_play_big
    \/ audio_init \/ audio_play_file
    \/ decoder_thread_func
    \/ snf_close \/ snf_open1 \/ snf_open2 \/ snf_reset \/ snf_fin
    \/ snf_unpause \/ snf_play \/ snf_sink \/ snf_amp \/ snf_vol
    \/ dl_enter \/ dl_c1 \/ dl_c2 \/ dl_c3 \/ dl_fill \/ dl_eof1 \/ dl_eof2
    \/ dl_decode \/ dl_fmt \/ dl_rate \/ dl_write \/ dl_count \/ dl_leave

SpecBuf == Init /\ [][NextBuf]_vars

\* the playlist cursor: a playlist of 0 to MaxSongs songs whose first song has
\* just been started, at either value of the tick counter; then the two cursor
\* functions are called as time passes and songs are started
InitList ==
    /\ audio = AudioInit
    /\ sink = SinkInit
    /\ wpc = "none"
    /\ wl = WlInit
    /\ cpc = "idle"
    /\ cstack = <<>>
    /\ cl = ClInit
    /\ \E n \in 0..MaxSongs : \E b \in BootTicks :
         plug = [PlugInit EXCEPT !.count = n, !.boot = b, !.song_start_time = b]
    /\ gh = GhInit

NextList ==
    \/ call_playlist_next \/ call_playlist_prev_or_restart \/ call_song_started
    \/ host_clock

SpecList == InitList /\ [][NextList]_vars

\* audio_cleanup of an engine that audio_init has started, as plugin_init calls it
audio_cleanup_started ==
    \/ cl_guard \/ cl_1 \/ cl_2 \/ cl_3 \/ cl_wait1 \/ cl_stop \/ cl_chk
    \/ cl_wait2 \/ cl_join \/ cl_run0 \/ cl_close \/ cl_amp \/ cl_free \/ cl_reset
    \/ cl_uninit \/ cl_ret

\* the service: the host loads the plugin and runs plugin_service_run over the
\* playlist of the card; no key is pressed
NextService ==
    \/ call_plugin_init \/ plugin_init \/ audio_init \/ audio_cleanup_started
    \/ audio_set_volume
    \/ plugin_service_run \/ audio_play_file \/ audio_get_position_ms
    \/ Worker

SpecService == Init /\ [][NextService]_vars

\* the host loads the plugin
Load ==
    \/ call_plugin_init \/ plugin_init \/ audio_init \/ audio_cleanup_started
    \/ audio_set_volume

\* the service loop and the calls it makes
ServiceLoop == plugin_service_run \/ audio_play_file \/ audio_get_position_ms

\* the skip keys: the service of a loaded plugin with SUPER+RIGHT and SUPER+LEFT
\* pressed at any time; the worker keeps being scheduled and the control
\* thread's calls return
NextSkip ==
    \/ Load \/ ServiceLoop \/ Worker
    \/ key_next \/ key_prev \/ key_started \/ key_ret

SpecSkip ==
    /\ Init /\ [][NextSkip]_vars
    /\ WF_vars(Worker) /\ WF_vars(ServiceLoop \/ key_started \/ key_ret)

\* the pause key: the service of a loaded plugin with SUPER+DOWN or SUPER+SELECT
\* pressed at any time
NextPause ==
    \/ Load \/ ServiceLoop \/ Worker
    \/ key_pause \/ key_paused \/ key_resumed \/ key_ret \/ audio_pause \/ audio_resume

SpecPause ==
    /\ Init /\ [][NextPause]_vars
    /\ WF_vars(Worker)
    /\ WF_vars(ServiceLoop \/ key_paused \/ key_resumed \/ key_ret \/ audio_pause
               \/ audio_resume)

\* the worker's steps on requests for file 1 only: every open succeeds, every
\* decoder call finds a frame or skips a block
WorkerOne ==
    \/ decoder_thread_func
    \/ snf_close \/ snf_open1 \/ snf_open2 \/ snf_reset \/ snf_fin
    \/ snf_unpause \/ snf_play \/ snf_sink \/ snf_amp \/ snf_vol
    \/ dl_enter \/ dl_c1 \/ dl_c2 \/ dl_c3 \/ dl_fill \/ dl_eof1 \/ dl_eof2
    \/ dl_decode \/ dl_fmt \/ dl_reconf \/ dl_rate \/ dl_write \/ dl_count \/ dl_leave

\* the transport on one file: start the engine, then play file 1, stop, pause and
\* resume in any order, with a worker that keeps being scheduled
NextHalt ==
    \/ call_start \/ call_play_one \/ call_stop \/ call_pause \/ call_resume
    \/ audio_init \/ audio_play_file \/ audio_stop \/ audio_pause \/ audio_resume
    \/ WorkerOne

SpecHalt == Init /\ [][NextHalt]_vars /\ WF_vars(WorkerOne)

\* the whole API of the engine: audio_init and audio_cleanup in any order around
\* play requests for file 1 and for a path that cannot be opened, stop, pause
\* and resume
NextEngine ==
    \/ call_init \/ call_cleanup \/ call_play_some \/ call_stop \/ call_pause \/ call_resume
    \/ audio_init \/ audio_cleanup \/ audio_play_file \/ audio_stop \/ audio_pause
    \/ audio_resume
    \/ WorkerOne \/ snf_fail \/ w_exit

SpecEngine == Init /\ [][NextEngine]_vars

(* ------------------------------------------------------------------ *)
(* Properties                                                          *)
(* ------------------------------------------------------------------ *)

\* C3: once audio_cleanup has started it returns, whatever the worker was doing
\* when it started and whether or not its two polling waits expired, given a
\* worker that keeps being scheduled and an output write that returns.
C3_ShutdownCompletes == (cpc \in CleanupPcs) ~> (cpc \notin CleanupPcs)

\* both waits of a cleanup have expired: it is about to join a worker that is
\* still in the output write of decode_loop
C3_Witness ==
    /\ cpc = "cl_join"
    /\ wpc = "dl_write"
    /\ audio.g_thread_in_decode /\ audio.g_thread_running

\* C9: an audio_cleanup that ran to its end has called pthread_join exactly once
\* on the thread that the last successful audio_init created.
C9_JoinedOnce == cpc = "cl_ret" => gh.joins = 1

\* C10: audio_init returns -1 with both buffers NULL, no worker running and
\* g_audio_initialized and g_thread_running false; it returns 0 only with both
\* buffers allocated and the worker created.
C10_AllOrNothing ==
    cpc = "ai_ret" =>
        IF cl.ret = -1
        THEN /\ audio.read_buffer = "NULL" /\ audio.g_mp3_decoder = "NULL"
             /\ wpc \in {"none", "w_done"}
             /\ ~audio.g_audio_initialized /\ ~audio.g_thread_running
        ELSE /\ cl.ret = 0
             /\ audio.read_buffer = "alloc" /\ audio.g_mp3_decoder # "NULL"
             /\ wpc \notin {"none", "w_done"}
             /\ audio.g_audio_initialized /\ audio.g_thread_running

\* an audio_init that failed after an earlier engine had been started and cleaned up
C10_Witness == cpc = "ai_ret" /\ cl.ret = -1 /\ wpc = "w_done"

\* C4: within the decoding of one file a position read never returns less than
\* the read before it, and a read that completes before the first frame of the
\* file has been counted returns 0.
C4_PositionMonotonic ==
    [][(cpc \in {"gp_3", "gp_3r"} /\ cpc' = "gp_ret" /\ gh.posOK) =>
          /\ cl'.ret >= gh.posPrev
          /\ ~gh.counted => cl'.ret = 0]_vars

\* C5: the decode loop reconfigures the sink only to a rate that differs from the
\* rate the sink is configured to.
C5_ReconfigOnlyIfDiffers == wpc = "dl_reconf" => sink.rate # wl.hz

\* C6: fill_buffer leaving fewer than 4 unread bytes sends the loop into the
\* end-of-file branch, which sets g_song_finished, clears g_playing and leaves
\* the loop; 4 bytes or more send it to the decoder, which is never called on
\* fewer.
C6_EofThreshold ==
    [][/\ (wpc = "dl_fill" /\ wpc' # wpc) =>
             wpc' = IF Unread(audio') < EofThreshold THEN "dl_eof1" ELSE "dl_decode"
       /\ (wpc = "dl_eof1" /\ wpc' # wpc) => (audio'.g_song_finished /\ wpc' = "dl_eof2")
       /\ (wpc = "dl_eof2" /\ wpc' # wpc) => (~audio'.g_playing /\ wpc' = "dl_leave")
       /\ (wpc' = "dl_decode") => Unread(audio') >= EofThreshold]_vars

\* the end-of-file branch taken with exactly 3 unread bytes and the file exhausted
C6_Witness ==
    /\ wpc = "dl_eof1"
    /\ Unread(audio) = 3
    /\ audio.fpos = FileLen(audio.g_current_file)

\* C1: a play request that overwrote an unconsumed one is consumed by the worker
\* (which then opens its path), and what the worker opens for it is exactly the
\* path of the last request; the one pending path is that of the last request.
C1_Consumed == (audio.g_new_file_pending /\ gh.over) ~> ~audio.g_new_file_pending

C1_LastWriterWins ==
    /\ gh.lww # "other"
    /\ (audio.g_new_file_pending /\ cpc \notin {"pf_copy2", "pf_flag"}) =>
           audio.g_pending_path = Str(gh.lastReq)

\* C8: when audio_play_file returns, and until the worker polls, the pending
\* path is its argument, the flag is set, g_playing is true, g_paused is false
\* and audio_is_finished() is false.
C8_PlayFilePostcondition ==
    (cpc = "pf_ret" /\ audio.g_new_file_pending) =>
        /\ audio.g_pending_path = Str(cl.path)
        /\ audio.g_playing /\ ~audio.g_paused
        /\ ~audio_is_finished

\* C2 as stated: once an audio_stop or audio_pause that was called with the
\* worker in decode_loop has returned, g_song_finished does not go from false to
\* true before the next successful open.
C2_NeverFinishedAfterStop ==
    [][(gh.quiet = "returned" /\ ~audio.g_song_finished) => ~audio'.g_song_finished]_vars

\* C2, amended: after such a call, once the worker has begun a check of the loop
\* condition that follows the call (and any audio_play_file begun since),
\* g_song_finished does not go from false to true before the next successful
\* open or audio_resume; only the iteration that was already past its check can
\* still reach the end of the file and set it.
C2_NotFinishedOnceRechecked ==
    [][(gh.quiet # "no" /\ gh.rechecked /\ ~audio.g_song_finished) =>
          ~audio'.g_song_finished]_vars

\* a stop or pause has returned and the loop has left a file that it had not
\* finished: the worker is in its idle sleep
C2_Witness ==
    /\ gh.quiet = "returned" /\ gh.rechecked
    /\ wpc = "w_sleep"
    /\ audio.g_current_file # 0 /\ ~audio.g_song_finished
    /\ audio.fpos - Unread(audio) < FileLen(audio.g_current_file) - FrameBytes

\* the nearest value of [0, 100]
Clamp(v) == IF v < 0 THEN 0 ELSE IF v > MaxVolume THEN MaxVolume ELSE v

\* C7 as stated: state->volume and the sink's volume stay within [0, 100];
\* plugin_init loads the value that the last plugin_cleanup wrote; a persisted
\* value out of range is clamped into [0, 100], and so is the argument of
\* audio_set_volume.
C7_VolumeClamped ==
    /\ plug.volume \in 0..MaxVolume /\ sink.volume \in 0..MaxVolume
    /\ (cpc = "pi_playlist" /\ gh.saved # -1) => plug.volume = gh.saved
    /\ (cpc = "pi_playlist" /\ plug.has_setting) => plug.volume = Clamp(plug.setting)
    /\ cpc = "sv_ret" => sink.volume = Clamp(cl.vol)

\* C7, amended: as above, but a persisted value out of range is not clamped: it
\* is ignored, and state->volume is the default, 100.
C7_VolumeInRange ==
    /\ plug.volume \in 0..MaxVolume /\ sink.volume \in 0..MaxVolume
    /\ (cpc = "pi_playlist" /\ gh.saved # -1) => plug.volume = gh.saved
    /\ (cpc = "pi_playlist" /\ plug.has_setting) =>
           plug.volume = IF plug.setting \in 0..MaxVolume THEN plug.setting ELSE MaxVolume
    /\ cpc = "sv_ret" => sink.volume = Clamp(cl.vol)

\* a restart has loaded the value that the volume keys had set and plugin_cleanup
\* had written
C7_Witness == cpc = "pi_playlist" /\ gh.saved = 45 /\ plug.volume = 45

\* C11: after start_new_file has failed to open its path, and until the next
\* successful open, g_playing is false, no file is open and the worker is outside
\* decode_loop, polling; the worker leaves its main loop only on a
\* g_thread_should_stop that an audio_cleanup in progress has set; and a request
\* for an openable path that is pending after the failure is opened and reaches
\* the decoder, unless the client makes another call first.
C11_OpenFailureRecoverable ==
    /\ [](gh.failed =>
            /\ ~audio.g_playing /\ audio.g_current_file = 0
            /\ wpc \notin DecodeLoopPcs \cup {"w_play2"})
    /\ [][(wpc' = "w_exit" /\ wpc # "w_exit") =>
            (audio.g_thread_should_stop /\ cpc \in CleanupPcs)]_vars
    /\ (gh.failed /\ audio.g_new_file_pending /\ Openable(audio.g_pending_path)
           /\ cpc = "idle")
         ~> (wpc = "dl_decode" \/ cpc # "idle")

\* a request for an existing file is pending after an open that failed
C11_Witness ==
    /\ gh.failed /\ audio.g_new_file_pending /\ Openable(audio.g_pending_path)
    /\ cpc = "idle" /\ wpc = "w_sleep"

\* C12: after a sink write that timed out the loop ends the session (g_playing
\* false, decode_loop left) and does not add the samples of the frame that was
\* not written to g_samples_written.
C12_WriteTimeoutEndsSession ==
    [][(wpc = "dl_count" /\ wl.timeout /\ wpc' # wpc) =>
          /\ audio'.g_samples_written = audio.g_samples_written
          /\ ~audio'.g_playing
          /\ wpc' = "dl_leave"]_vars

\* C13: audio_resume changes nothing when it finds g_playing false; when it finds
\* it true it clears g_paused and then enables the amplifier, and nothing else.
\* No statement of audio_stop or audio_pause changes anything but g_playing,
\* g_paused, g_new_file_pending and the amplifier: the pending path, the open
\* file and its cursor, the ingest buffer and g_samples_written are left alone.
C13_IntentOnly ==
    [][/\ (cpc = "re_1" /\ cpc' # cpc) =>
             /\ cpc' = IF audio.g_playing THEN "re_2" ELSE "re_ret"
             /\ UNCHANGED <<audio, sink>>
       /\ (cpc = "re_2" /\ cpc' # cpc) =>
             (audio' = [audio EXCEPT !.g_paused = FALSE] /\ UNCHANGED sink /\ cpc' = "re_3")
       /\ (cpc = "re_3" /\ cpc' # cpc) =>
             (sink' = [sink EXCEPT !.amp = TRUE] /\ UNCHANGED audio)
       /\ (cpc = "re_ret" /\ cpc' # cpc) => UNCHANGED <<audio, sink>>
       /\ (cpc \in {"st_1", "st_2", "st_3", "st_4", "st_ret", "pa_1", "pa_2", "pa_ret"}
             /\ cpc' # cpc) =>
             /\ audio' = [audio EXCEPT !.g_playing = audio'.g_playing,
                                       !.g_paused = audio'.g_paused,
                                       !.g_new_file_pending = audio'.g_new_file_pending]
             /\ sink' = [sink EXCEPT !.amp = sink'.amp]
             /\ (cpc \in {"pa_1", "pa_2", "pa_ret"} =>
                    audio'.g_new_file_pending = audio.g_new_file_pending
                    /\ audio'.g_playing = audio.g_playing)]_vars

\* an audio_resume that found no session is at its return: the pause before it
\* is still in force and the amplifier still off
C13_Witness == cpc = "re_ret" /\ audio.g_paused /\ ~sink.amp /\ ~audio.g_playing

\* C14: once the open file is exhausted, a decode loop that is still running on
\* it ends: it leaves the loop (having set g_song_finished, unless it was asked
\* to stop), whatever the decoder reports on the bytes that remain.
C14_ExhaustedFileEnds ==
    (wpc \in DecodeLoopPcs /\ audio.g_current_file # 0
        /\ audio.fpos = FileLen(audio.g_current_file))
    ~> (wpc \notin DecodeLoopPcs)

C16_PerFileReset ==
    wpc = "dl_decode" =>
        /\ audio.g_current_file # 0
        /\ BufferOffset(audio) >= 0
        /\ audio.dec_file \in {0, audio.g_current_file}

\* the first decoder call on file 2, after frames of file 1 had been decoded
C16_Witness ==
    /\ wpc = "dl_decode" /\ audio.g_current_file = 2
    /\ audio.g_mp3_decoder = "fresh" /\ BufferOffset(audio) = 0
    /\ audio.g_sample_rate = FileRate(1)

\* C17: a worker thread comes into being only in the pthread_create of
\* audio_init, and only when no thread of an earlier audio_init is left: the
\* earlier one has been stopped and joined by audio_cleanup; a thread ceases to
\* be only in the pthread_join of audio_cleanup.
C17_OneWorker ==
    [][/\ (wpc \in {"none", "w_done"} /\ wpc' \notin {"none", "w_done"}) =>
             (cpc = "ai_create" /\ wpc = "none")
       /\ (wpc # "none" /\ wpc' = "none") => cpc = "cl_join"]_vars

\* C18: whenever a frame is written to the sink, the sink is configured to the
\* sample rate of that frame, which is the rate of the file, and g_sample_rate
\* holds the same rate.
C18_SinkRateIsFileRate ==
    wpc = "dl_write" =>
        /\ sink.rate = FileRate(audio.g_current_file)
        /\ audio.g_sample_rate = FileRate(audio.g_current_file)

\* C19: 0 <= buffer_pos <= buffer_len <= READ_BUFFER_SIZE in every state; a
\* fill_buffer reads no more bytes than the buffer had free after compaction,
\* and with a file open it returns with buffer_pos = 0 and the value buffer_len.
C19_BufferBounds ==
    /\ [](/\ 0 <= audio.buffer_pos /\ audio.buffer_pos <= audio.buffer_len
          /\ audio.buffer_len <= READ_BUFFER_SIZE
          /\ Len(audio.buf) = audio.buffer_len)
    /\ [][(wpc \in {"dl_fill", "dl_refill"} /\ wpc' # wpc) =>
            /\ audio'.fpos - audio.fpos <= READ_BUFFER_SIZE - Unread(audio)
            /\ audio.g_current_file # 0 =>
                  (audio'.buffer_pos = 0 /\ FillReturn(audio) = audio'.buffer_len)]_vars

\* the buffer is full again after a compaction and a refill, more of the file
\* still to come
C19_Witness ==
    /\ wpc = "dl_decode"
    /\ audio.buffer_len = READ_BUFFER_SIZE /\ audio.buffer_pos = 0
    /\ audio.fpos > READ_BUFFER_SIZE /\ audio.fpos < FileLen(audio.g_current_file)

\* C20: for the open file, once start_new_file has emptied the buffer, the
\* unread region read_buffer[buffer_pos .. buffer_len) is the file's bytes from
\* the offset that the decoder has consumed up to, to the read cursor, in
\* order; each decoder call consumes the next bytes of the file; and the read
\* cursor of an open file never moves back.
C20_StreamFidelity ==
    /\ []((audio.g_current_file # 0 /\ wpc # "snf_reset") =>
            /\ gh.eaten + Unread(audio) = audio.fpos
            /\ SubSeq(audio.buf, audio.buffer_pos + 1, audio.buffer_len)
                  = FileSlice(audio.g_current_file, gh.eaten, Unread(audio)))
    /\ [][(wpc = "dl_decode" /\ wpc' # wpc) =>
            SubSeq(audio.buf, audio.buffer_pos + 1, audio'.buffer_pos)
              = FileSlice(audio.g_current_file, gh.eaten, gh'.eaten - gh.eaten)]_vars
    /\ [][(audio.g_current_file # 0 /\ audio'.g_current_file = audio.g_current_file
             /\ wpc \in DecodeLoopPcs) => audio'.fpos >= audio.fpos]_vars

\* the last frame of the long file is about to be decoded from a buffer that
\* has been compacted and refilled
C20_Witness ==
    /\ wpc = "dl_decode" /\ audio.g_current_file = BigPath
    /\ audio.fpos = FileLen(BigPath)
    /\ gh.eaten = (BigFrames - 1) * BigFrameBytes

\* C21: after an audio_stop or audio_pause called with the worker in decode_loop,
\* and until the client's next audio_stop, audio_pause, audio_play_file or
\* audio_resume, the worker begins at most one more sink write; and it leaves
\* decode_loop unless an audio_resume lets it go on.
C21_AtMostOneMoreWrite ==
    /\ [](gh.quiet # "no" => gh.writes <= 1)
    /\ (gh.quiet # "no" /\ wpc \in DecodeLoopPcs)
         ~> (wpc \notin DecodeLoopPcs \/ gh.quiet = "no")

\* a pause found the worker past its loop condition, with no play request
\* pending: the worker has written the frame it was at and is leaving the loop
\* of a file that it has not finished
C21_Witness ==
    /\ gh.quiet = "returned" /\ gh.writes = 1
    /\ wpc = "dl_leave"
    /\ audio.g_paused /\ audio.g_playing /\ ~audio.g_new_file_pending
    /\ ~audio.g_song_finished

\* C22: from the worker leaving decode_loop on a pause until the first
\* fill_buffer after the resume, with no stop, play or cleanup begun in between,
\* the worker does not enter start_new_file and the session (open file, read
\* cursor, ingest buffer and cursors, decoder state, g_sample_rate,
\* g_samples_written) is what it was: decoding goes on where it was left.
C22_ResumeKeepsSession ==
    gh.held # <<>> =>
        /\ Session(audio) = gh.held[1]
        /\ wpc \notin StartNewFilePcs \cup {"w_take"}

\* C22 where no play request was pending when the worker left the loop
C22_ResumeKeepsSessionNonePending ==
    (gh.held # <<>> /\ ~gh.held[2]) =>
        /\ Session(audio) = gh.held[1]
        /\ wpc \notin StartNewFilePcs \cup {"w_take"}

\* C23: at most one FILE handle is open, and it is g_current_file; a file is
\* opened only by the worker, in start_new_file, after it has closed the one
\* before; no fclose is given a handle that is not open; audio_cleanup closes
\* only once the worker has returned, and while the engine is not initialised no
\* handle is open.
C23_OneHandle ==
    /\ [](/\ gh.nopen = IF audio.g_current_file # 0 THEN 1 ELSE 0
          /\ wpc = "snf_open2" => audio.g_current_file = 0
          /\ cpc = "cl_close" => wpc \in {"w_done", "none"}
          /\ ~audio.g_audio_initialized => audio.g_current_file = 0)
    /\ [][(audio.g_current_file = 0 /\ audio'.g_current_file # 0) =>
            (wpc = "snf_open2" /\ wpc' = "snf_reset")]_vars

\* audio_cleanup is about to close the file that the worker, joined by now, had
\* been decoding
C23_Witness ==
    /\ cpc = "cl_close" /\ wpc = "none"
    /\ audio.g_current_file = 1 /\ audio.fpos > 0
    /\ gh.nopen = 1 /\ gh.joins = 1

\* C24: an audio_cleanup that ran to its end leaves every static of the engine
\* at its initial value, the worker returned and the amplifier off; an
\* audio_cleanup on an engine that is not initialised finds that state and
\* changes nothing; and an audio_init that succeeds returns with the state that
\* the first audio_init returned with, whatever was played before.
C24_CleanupRestoresInit ==
    /\ [](cpc = "cl_ret" =>
            (audio = AudioInit /\ wpc \in {"none", "w_done"} /\ ~sink.amp))
    /\ [](cpc = "cl_nop" => audio = AudioInit)
    /\ [][(cpc \in {"cl_guard", "cl_nop"} /\ ~audio.g_audio_initialized /\ cpc' # cpc) =>
            UNCHANGED <<audio, sink, wpc, wl>>]_vars
    /\ []((cpc = "ai_ret" /\ cl.ret = 0) =>
            audio = [AudioInit EXCEPT !.read_buffer = "alloc", !.g_mp3_decoder = "fresh",
                                      !.g_thread_running = TRUE,
                                      !.g_audio_initialized = TRUE])

\* a second audio_cleanup, after the cleanup of an engine that had played file 1
\* at 48 kHz: it finds the engine not initialised and returns
C24_Witness ==
    /\ cpc = "cl_nop" /\ Len(cstack) = 1
    /\ sink.rate = FileRate(1) /\ gh.joins = 1 /\ wpc = "none"

\* C29: from its fclose on, audio_cleanup runs with the worker out of its main
\* loop and returned; a worker inside start_new_file or decode_loop has both
\* buffers allocated, and one that fills the buffer or calls the decoder has the
\* file open.
C29_NoUseAfterRelease ==
    /\ cpc \in {"cl_close", "cl_amp", "cl_free", "cl_reset", "cl_uninit", "cl_ret"} =>
           wpc \in {"w_done", "none"}
    /\ wpc \in DecodeLoopPcs \cup StartNewFilePcs =>
           (audio.read_buffer = "alloc" /\ audio.g_mp3_decoder # "NULL")
    /\ wpc \in {"dl_fill", "dl_decode", "dl_refill"} => audio.g_current_file # 0

\* audio_cleanup is about to free the buffers of a worker that was decoding and
\* has returned on its own, so that it was not joined
C29_Witness ==
    /\ cpc = "cl_free" /\ wpc = "w_done" /\ gh.joins = 0
    /\ audio.buffer_len > 0 /\ audio.g_mp3_decoder = "used"

\* the worker is in its thread loop, outside start_new_file and decode_loop
WorkerIdle == wpc \in {"w_loop", "w_pend", "w_play1", "w_play2", "w_sleep"}

\* C27: after audio_stop has returned, and until the next audio_play_file or
\* audio_cleanup begins, the amplifier stays off, the worker begins no iteration
\* of decode_loop other than one whose loop-condition check had begun before,
\* and the worker comes to be idle.
C27_StopNeverLost ==
    /\ [](gh.stopped # "no" => ~sink.amp)
    /\ [](gh.stopped # "late")
    /\ (gh.stopped # "no") ~> (gh.stopped = "no" \/ WorkerIdle)

\* C25: with songs in the playlist the cursor is within 0 .. count - 1 after any
\* sequence of calls; playlist_next moves it to the next index and from the last
\* to 0; playlist_prev_or_restart moves it to the index before, and from 0 to
\* the last, when fewer than 10000 ms have passed since song_start_time was set,
\* and leaves it otherwise; neither changes anything else, nor anything at all
\* when the playlist is empty.
C25_CursorInRange ==
    LET i == plug.current_index
        n == plug.count
        elapsed == plug.now_ms - gh.started
    IN  /\ n > 0 => (0 <= i /\ i < n)
        /\ playlist_next(plug) =
              [plug EXCEPT !.current_index =
                  IF n = 0 THEN i ELSE IF i = n - 1 THEN 0 ELSE i + 1]
        /\ playlist_prev_or_restart(plug) =
              [plug EXCEPT !.current_index =
                  IF n = 0 \/ elapsed >= RestartAfterMs THEN i
                  ELSE IF i = 0 THEN n - 1 ELSE i - 1]

\* playlist_prev_or_restart has gone from song 0 to the last song 9999 ms after
\* the song was started, the tick counter having wrapped in between
C25_Witness ==
    /\ gh.op = "prev" /\ plug.count = MaxSongs /\ plug.current_index = MaxSongs - 1
    /\ plug.now_ms - gh.started = RestartAfterMs - 1
    /\ plug.song_start_time[1] = Limb - 1 /\ asp_plugin_get_tick_ms(plug)[1] = 0

\* C26: the service loop auto-advances (playlist_next and audio_play_file, main.c
\* 140-144) once for each time the worker marks a song finished: it never
\* advances again while g_song_finished is still the flag of the song it has
\* already advanced from, that is, before the worker has cleared the flag in
\* start_new_file or has failed to open the requested file.
C26_OneAdvancePerFinish == gh.adv # "again"

\* C28: once the pause key has set PLAYBACK_PAUSED after its audio_pause, and
\* until a later resume, play, stop or cleanup, the worker begins at most the
\* one sink write that was in flight and comes to be outside decode_loop; that
\* holds as well when the pause falls between an audio_play_file and the end
\* of the start_new_file that serves it.
C28_PauseNeverLost ==
    /\ [](plug.state = "PAUSED" /\ gh.pw >= 0 => gh.pw <= 1)
    /\ ((plug.state = "PAUSED" /\ gh.pw >= 0)
          ~> (gh.pw < 0 \/ wpc \notin DecodeLoopPcs))

\* C30: whenever the worker has reached the end of the file or failed to open
\* the requested file while the state is PLAYBACK_PLAYING, a new audio_play_file
\* eventually begins; so also after SUPER+RIGHT or SUPER+LEFT during playback
\* has requested a file that cannot be opened.
C30_NoSilentStuckState == (gh.ended /\ plug.state = "PLAYING") ~> ~gh.ended

====
